---------------------------- MODULE Spec2Model ----------------------------
(***************************************************************************)
(* Model of tflegal.py: the structural parser, the text wrapper, the       *)
(* segment builder, the paginator and the table-of-contents filter.        *)
(*                                                                         *)
(* A Python str is a sequence of one-character strings, so that the        *)
(* regular expressions and the str methods of the source are computed      *)
(* character by character.  An OrderedDict is a sequence of <<key, value>> *)
(* pairs with the overwrite-in-place semantics of the source.              *)
(***************************************************************************)
EXTENDS Integers, Sequences, FiniteSets, TLC

VARIABLES
    pc,                 \* position in the program
    segments,           \* generate_legal_document: the layout segments
    max_lines_per_page, \* generate_legal_document: line budget of a page
    current_index,      \* generate_legal_document: next segment (0-based)
    text_pages,         \* generate_legal_document: dry-pass page count
    total_pages_est,    \* generate_legal_document: the footer's N
    page_number,        \* generate_legal_document: number of the next page
    heading_positions,  \* main: (text, page, line, is_sub) of placed headings
    dry_pages,          \* history: segment ranges the dry pass counted
    pages,              \* history: pages emitted by showPage, in order
    full_text,          \* wrap_text_to_lines: the text to wrap
    max_width,          \* wrap_text_to_lines: the width limit
    all_lines,          \* wrap_text_to_lines: the (line, was_wrapped) result
    rewrapped,          \* the result of wrapping each line of all_lines again
    exhibit_text,       \* main: exhibit_text_after_1
    text_exhibits_od,   \* main: the result of parse_exhibits_from_text
    exhibits_od,        \* main: the renumbered exhibits
    toc_positions,      \* main: the result of filter_headings_for_toc
    raw_text,           \* main: the text given to parse_header_and_sections
    header_od,          \* main: the header returned by the parser
    sections_od,        \* main: the sections returned by the parser
    heading_styles,     \* generate_legal_document: classify_headings' result
    max_text_width,     \* generate_legal_document: the wrap width
    scan_text,          \* the text whose lines are scanned
    title_items,        \* the items detect_legal_title_blocks yields
    found_documents,    \* main: the result of parse_documents_from_text
    exhibits,           \* generate_legal_document: (caption, image_path) pairs
    exhibit_idx,        \* generate_legal_document: idx, exhibits drawn so far
    exhibit_pages       \* history: exhibit pages emitted by showPage, in order

pagVars == <<segments, max_lines_per_page, current_index, text_pages,
             total_pages_est, page_number, heading_positions, dry_pages, pages>>
wrapVars == <<full_text, max_width, all_lines, rewrapped>>
exhibitVars == <<exhibit_text, text_exhibits_od, exhibits_od>>
tocVars == <<toc_positions>>
docVars == <<raw_text, header_od, sections_od, heading_styles, max_text_width>>
scanVars == <<scan_text, title_items, found_documents>>
genVars == <<exhibits, exhibit_idx, exhibit_pages>>
vars == <<pc, pagVars, wrapVars, exhibitVars, tocVars, docVars, scanVars, genVars>>

(***************************************************************************)
(* Bounds of the model.                                                    *)
(***************************************************************************)
MaxSegs == 4
MaxLPP == 3
MaxTextLen == 5
MaxWidth == 5
MaxExLines == 4
MaxHeadings == 5
MaxDocLines == 4
MaxParseLines == 3
MaxScanLines == 5
MaxBodyLines == 2

(***************************************************************************)
(* Generic sequence helpers.                                               *)
(***************************************************************************)
SeqsUpTo(S, n) == UNION {[1..k -> S] : k \in 0..n}

Range(s) == {s[i] : i \in DOMAIN s}

(***************************************************************************)
(* Python str methods, on sequences of one-character strings.              *)
(***************************************************************************)
\* The characters str.split(), str.strip() and \s treat as whitespace.
WhitespaceChars == {" ", "\t", "\n", "\r"}

IsSpace(c) == c \in WhitespaceChars

RECURSIVE LStrip(_)
LStrip(s) ==
    IF s # <<>> /\ IsSpace(Head(s)) THEN LStrip(Tail(s)) ELSE s

RECURSIVE RStrip(_)
RStrip(s) ==
    IF s # <<>> /\ IsSpace(s[Len(s)]) THEN RStrip(SubSeq(s, 1, Len(s) - 1)) ELSE s

\* str.strip()
Strip(s) == RStrip(LStrip(s))

\* The k-th smallest element of a set of integers.
KthSmallest(S, k) == CHOOSE x \in S : Cardinality({y \in S : y < x}) = k - 1

\* str.split(sep) for a one-character sep: Len(result) = occurrences + 1.
SplitOn(s, sep) ==
    LET seps == {i \in DOMAIN s : s[i] = sep}
        n == Cardinality(seps)
    IN [k \in 1..(n + 1) |->
           SubSeq(s,
                  IF k = 1 THEN 1 ELSE KthSmallest(seps, k - 1) + 1,
                  IF k = n + 1 THEN Len(s) ELSE KthSmallest(seps, k) - 1)]

\* str.split(): the maximal runs of non-whitespace characters.
RECURSIVE SplitWordsLoop(_, _, _)
SplitWordsLoop(s, current, done) ==
    IF s = <<>>
    THEN IF current = <<>> THEN done ELSE Append(done, current)
    ELSE IF IsSpace(Head(s))
         THEN SplitWordsLoop(Tail(s), <<>>,
                             IF current = <<>> THEN done ELSE Append(done, current))
         ELSE SplitWordsLoop(Tail(s), Append(current, Head(s)), done)

SplitWords(s) == SplitWordsLoop(s, <<>>, <<>>)

\* sep.join(parts)
RECURSIVE Join(_, _)
Join(parts, sep) ==
    IF parts = <<>> THEN <<>>
    ELSE IF Len(parts) = 1 THEN parts[1]
    ELSE parts[1] \o sep \o Join(Tail(parts), sep)

\* str.splitlines(): a line ends at "\n", "\r\n" or "\r" (the other line
\* boundaries of Python are not in the alphabets of the model); text after the
\* last line end is a line only when it is not empty.
SplitLines(s) ==
    LET ends == {i \in DOMAIN s :
                    \/ s[i] = "\n"
                    \/ s[i] = "\r" /\ ~(i < Len(s) /\ s[i + 1] = "\n")}
        n == Cardinality(ends)
        First(k) == IF k = 1 THEN 1 ELSE KthSmallest(ends, k - 1) + 1
        Last(k) ==
            IF k = n + 1 THEN Len(s)
            ELSE LET e == KthSmallest(ends, k) IN
                 IF s[e] = "\n" /\ e > First(k) /\ s[e - 1] = "\r"
                 THEN e - 2
                 ELSE e - 1
        count == IF n = 0
                 THEN (IF s = <<>> THEN 0 ELSE 1)
                 ELSE (IF KthSmallest(ends, n) = Len(s) THEN n ELSE n + 1)
    IN [k \in 1..count |-> SubSeq(s, First(k), Last(k))]

LowerLetters == <<"a", "b", "c", "d", "e", "f", "g", "h", "i", "j", "k", "l", "m",
                  "n", "o", "p", "q", "r", "s", "t", "u", "v", "w", "x", "y", "z">>
UpperLetters == <<"A", "B", "C", "D", "E", "F", "G", "H", "I", "J", "K", "L", "M",
                  "N", "O", "P", "Q", "R", "S", "T", "U", "V", "W", "X", "Y", "Z">>

IsLower(c) == \E i \in DOMAIN LowerLetters : LowerLetters[i] = c
IsUpper(c) == \E i \in DOMAIN UpperLetters : UpperLetters[i] = c

\* The case folding of re.IGNORECASE on ASCII letters.
ToUpper(c) ==
    IF IsLower(c)
    THEN UpperLetters[CHOOSE i \in DOMAIN LowerLetters : LowerLetters[i] = c]
    ELSE c

UpperCase(s) == [i \in DOMAIN s |-> ToUpper(s[i])]

DigitChars == <<"0", "1", "2", "3", "4", "5", "6", "7", "8", "9">>

IsDigit(c) == \E i \in DOMAIN DigitChars : DigitChars[i] = c

DigitValue(c) == (CHOOSE i \in DOMAIN DigitChars : DigitChars[i] = c) - 1

\* int(x) of a string of decimal digits.
RECURSIVE ParseInt(_)
ParseInt(digits) ==
    IF digits = <<>> THEN 0
    ELSE ParseInt(SubSeq(digits, 1, Len(digits) - 1)) * 10
         + DigitValue(digits[Len(digits)])

\* str(i) of a natural number.
RECURSIVE IntToStr(_)
IntToStr(n) ==
    IF n < 10 THEN <<DigitChars[n + 1]>>
    ELSE IntToStr(n \div 10) \o <<DigitChars[(n % 10) + 1]>>

\* The longest prefix of s made of decimal digits: a greedy \d+ or [0-9]+.
RECURSIVE DigitPrefix(_)
DigitPrefix(s) ==
    IF s # <<>> /\ IsDigit(Head(s)) THEN <<Head(s)>> \o DigitPrefix(Tail(s)) ELSE <<>>

Drop(s, n) == SubSeq(s, n + 1, Len(s))

StartsWithIgnoreCase(s, word) ==
    Len(s) >= Len(word) /\ UpperCase(SubSeq(s, 1, Len(word))) = word

(***************************************************************************)
(* Optional values and OrderedDict.                                        *)
(***************************************************************************)
None == <<>>
Some(x) == <<x>>

OdKeys(od) == [i \in DOMAIN od |-> od[i][1]]

OdHas(od, key) == \E i \in DOMAIN od : od[i][1] = key

OdGet(od, key) == od[CHOOSE i \in DOMAIN od : od[i][1] = key][2]

OdSetMovesToEnd(od, key, value) ==
    Append(SelectSeq(od, LAMBDA entry : entry[1] # key), <<key, value>>)

\* od[key] = value: a key already held keeps its position.
OdSet(od, key, value) ==
    IF OdHas(od, key)
    THEN [i \in DOMAIN od |-> IF od[i][1] = key THEN <<key, value>> ELSE od[i]]
    ELSE Append(od, <<key, value>>)

(***************************************************************************)
(* The width-measurement capability, pdf_canvas.stringWidth: the sum of    *)
(* the glyph widths of the characters, scaled by the font size.  Glyph     *)
(* widths are in units of one narrow glyph.                                *)
(***************************************************************************)
NarrowGlyphs == {" ", "\t", "i", "l", "I", ".", ":", ","}

GlyphWidth(c, font_name) == IF c \in NarrowGlyphs THEN 1 ELSE 2

RECURSIVE GlyphSum(_, _)
GlyphSum(text, font_name) ==
    IF text = <<>> THEN 0
    ELSE GlyphWidth(Head(text), font_name) + GlyphSum(Tail(text), font_name)

stringWidth(text, font_name, font_size) == GlyphSum(text, font_name) * font_size

(***************************************************************************)
(* wrap_text_to_lines.  A result line is <<text, was_wrapped>>.            *)
(***************************************************************************)
FitsAlways(test_line, font_name, font_size, width_limit) == TRUE

FitsStrictly(test_line, font_name, font_size, width_limit) ==
    stringWidth(test_line, font_name, font_size) < width_limit

\* Line 130: the candidate line is kept when it measures at most max_width.
Fits(test_line, font_name, font_size, width_limit) ==
    stringWidth(test_line, font_name, font_size) <= width_limit

StartEmptyLine(word) == <<>>

\* Line 134: the word that did not fit opens the next line.
StartNewLine(word) == word

RECURSIVE WrapWords(_, _, _, _, _, _)
WrapWords(words, current_line, lines_so_far, font_name, font_size, width_limit) ==
    IF words = <<>>
    THEN IF current_line # <<>>
         THEN Append(lines_so_far, <<current_line, FALSE>>)
         ELSE lines_so_far
    ELSE LET word == Head(words)
             test_line == IF current_line = <<>>
                          THEN word
                          ELSE current_line \o <<" ">> \o word
         IN IF Fits(test_line, font_name, font_size, width_limit)
            THEN WrapWords(Tail(words), test_line, lines_so_far,
                           font_name, font_size, width_limit)
            ELSE WrapWords(Tail(words), StartNewLine(word),
                           Append(lines_so_far, <<current_line, TRUE>>),
                           font_name, font_size, width_limit)

\* Lines 123-136: one paragraph.
WrapParagraph(paragraph, font_name, font_size, width_limit) ==
    LET words == SplitWords(paragraph) IN
    IF words = <<>>
    THEN << <<<<>>, FALSE>> >>
    ELSE WrapWords(words, <<>>, <<>>, font_name, font_size, width_limit)

RECURSIVE WrapParagraphs(_, _, _, _)
WrapParagraphs(paragraphs, font_name, font_size, width_limit) ==
    IF paragraphs = <<>> THEN <<>>
    ELSE WrapParagraph(Head(paragraphs), font_name, font_size, width_limit)
         \o WrapParagraphs(Tail(paragraphs), font_name, font_size, width_limit)

wrap_text_to_lines(text, font_name, font_size, width_limit) ==
    WrapParagraphs(SplitOn(text, "\n"), font_name, font_size, width_limit)

(***************************************************************************)
(* parse_exhibits_from_text.                                               *)
(***************************************************************************)
ExhibitWord == <<"E", "X", "H", "I", "B", "I", "T">>

NoMatch == [matched |-> FALSE, number |-> <<>>, start_text |-> <<>>]

\* Line 813: ^\s*EXHIBIT\s+(\d+)\s*:\s*(.*)$ with re.IGNORECASE, on one line.
ExhibitMatch(line) ==
    LET s1 == LStrip(line) IN
    IF ~StartsWithIgnoreCase(s1, ExhibitWord) THEN NoMatch
    ELSE LET s2 == Drop(s1, Len(ExhibitWord)) IN
    IF s2 = <<>> \/ ~IsSpace(Head(s2)) THEN NoMatch
    ELSE LET s3 == LStrip(s2)
             number == DigitPrefix(s3)
         IN
    IF number = <<>> THEN NoMatch
    ELSE LET s4 == LStrip(Drop(s3, Len(number))) IN
    IF s4 = <<>> \/ Head(s4) # ":" THEN NoMatch
    ELSE [matched |-> TRUE, number |-> number, start_text |-> LStrip(Tail(s4))]

NewLine == <<"\n">>

\* Lines 821-823 and 834-836: store the open exhibit unless its number was seen.
CloseExhibit(st) ==
    IF st.current_exhibit_number # None
       /\ st.current_exhibit_number[1] \notin st.seen_exhibits
    THEN [st EXCEPT
            !.exhibits = OdSet(st.exhibits, st.current_exhibit_number[1],
                               Join(st.current_content, NewLine)),
            !.seen_exhibits = st.seen_exhibits \cup {st.current_exhibit_number[1]}]
    ELSE st

\* Lines 819-833: one line of the loop.
ExhibitLine(st, line) ==
    LET match == ExhibitMatch(line) IN
    IF match.matched
    THEN LET closed == CloseExhibit(st) IN
         IF match.number \in closed.seen_exhibits
         THEN [closed EXCEPT !.current_exhibit_number = None,
                             !.current_content = <<>>]
         ELSE [closed EXCEPT
                 !.current_exhibit_number = Some(match.number),
                 !.current_content = IF match.start_text # <<>>
                                     THEN <<match.start_text>>
                                     ELSE <<>>]
    ELSE IF st.current_exhibit_number # None
         THEN [st EXCEPT !.current_content = Append(st.current_content, line)]
         ELSE st

RECURSIVE ExhibitLoop(_, _)
ExhibitLoop(st, lines) ==
    IF lines = <<>> THEN st
    ELSE ExhibitLoop(ExhibitLine(st, Head(lines)), Tail(lines))

parse_exhibits_from_text(raw) ==
    CloseExhibit(
        ExhibitLoop([exhibits |-> <<>>, current_exhibit_number |-> None,
                     current_content |-> <<>>, seen_exhibits |-> {}],
                    SplitLines(raw))).exhibits

(***************************************************************************)
(* main, lines 1286-1293: the exhibits renumbered 1..N in the order of     *)
(* sorted(keys, key=int), which is stable.                                 *)
(***************************************************************************)
RECURSIVE InsertByInt(_, _)
InsertByInt(sorted_keys, key) ==
    IF sorted_keys = <<>> THEN <<key>>
    ELSE IF ParseInt(key) < ParseInt(Head(sorted_keys))
         THEN <<key>> \o sorted_keys
         ELSE <<Head(sorted_keys)>> \o InsertByInt(Tail(sorted_keys), key)

RECURSIVE SortedByInt(_)
SortedByInt(keys) ==
    IF keys = <<>> THEN <<>>
    ELSE InsertByInt(SortedByInt(SubSeq(keys, 1, Len(keys) - 1)), keys[Len(keys)])

RenumberExhibits(text_exhibits) ==
    LET keys == SortedByInt(OdKeys(text_exhibits)) IN
    [i \in DOMAIN keys |->
        <<IntToStr(i), [caption |-> OdGet(text_exhibits, keys[i]),
                        image_path |-> <<>>]>>]

(***************************************************************************)
(* is_exhibit_reference and filter_headings_for_toc.                       *)
(***************************************************************************)
\* \w of the re module, on ASCII.
IsWordChar(c) == IsLower(c) \/ IsUpper(c) \/ IsDigit(c) \/ c = "_"

\* \bEXHIBIT\s+\d+: with re.IGNORECASE, matched at position i of s.
ExhibitReferenceAt(s, i) ==
    /\ i = 1 \/ ~IsWordChar(s[i - 1])
    /\ StartsWithIgnoreCase(Drop(s, i - 1), ExhibitWord)
    /\ LET after_word == Drop(s, i - 1 + Len(ExhibitWord)) IN
       /\ after_word # <<>>
       /\ IsSpace(Head(after_word))
       /\ LET after_space == LStrip(after_word)
              digits == DigitPrefix(after_space)
              after_digits == Drop(after_space, Len(digits))
          IN /\ digits # <<>>
             /\ after_digits # <<>>
             /\ Head(after_digits) = ":"

\* Lines 69-70: re.search finds the pattern at any position.
is_exhibit_reference(line_str) ==
    \E i \in DOMAIN line_str : ExhibitReferenceAt(line_str, i)

SpecialExhibitsText == <<"S", "P", "E", "C", "I", "A", "L", " ", "E", "X", "H", "I", "B", "I", "T", "S">>

IsSpecialHeadingVerbatim(heading_text) == heading_text = SpecialExhibitsText

\* Line 1236: (?i)^SPECIAL EXHIBITS$ on heading_text.strip().
IsSpecialHeading(heading_text) ==
    UpperCase(Strip(heading_text)) = SpecialExhibitsText

EnterSpecialSectionSilently(st, heading) ==
    [st EXCEPT !.in_special_section = TRUE]

\* Lines 1237-1238: the "SPECIAL EXHIBITS" heading is itself kept.
EnterSpecialSection(st, heading) ==
    [st EXCEPT !.in_special_section = TRUE,
               !.new_positions = Append(st.new_positions, heading)]

\* Lines 1232-1242: one heading of the loop.
FilterHeading(st, heading) ==
    IF st.in_special_section
    THEN [st EXCEPT !.new_positions = Append(st.new_positions, heading)]
    ELSE IF st.found_exhibit
         THEN IF IsSpecialHeading(heading[1])
              THEN EnterSpecialSection(st, heading)
              ELSE st
         ELSE [st EXCEPT !.new_positions = Append(st.new_positions, heading),
                         !.found_exhibit = is_exhibit_reference(heading[1])]

RECURSIVE FilterLoop(_, _)
FilterLoop(st, positions) ==
    IF positions = <<>> THEN st
    ELSE FilterLoop(FilterHeading(st, Head(positions)), Tail(positions))

filter_headings_for_toc(positions) ==
    FilterLoop([new_positions |-> <<>>, found_exhibit |-> FALSE,
                in_special_section |-> FALSE], positions).new_positions

(***************************************************************************)
(* The line predicates and detect_legal_title_blocks.                      *)
(***************************************************************************)
MinRuleLength == 5

is_line_all_caps(line_str) ==
    /\ \E i \in DOMAIN line_str : IsUpper(line_str[i])
    /\ ~ \E i \in DOMAIN line_str : IsLower(line_str[i])

is_line_of_equals(line_str) ==
    LET s == Strip(line_str) IN
    /\ Len(s) >= MinRuleLength
    /\ \A i \in DOMAIN s : s[i] = "="

is_line_of_dashes(line_str) ==
    LET s == Strip(line_str) IN
    /\ Len(s) >= MinRuleLength
    /\ \A i \in DOMAIN s : s[i] = "-"

\* Lines 95-104: the index of the first '=' line at or after j (0: none).
FindBottom(lines, j) ==
    IF \E k \in j..Len(lines) : is_line_of_equals(lines[k])
    THEN CHOOSE k \in j..Len(lines) :
            /\ is_line_of_equals(lines[k])
            /\ \A m \in j..(k - 1) : ~is_line_of_equals(lines[m])
    ELSE 0

ResumeAtEnd(lines, i) == Len(lines) + 1

\* Line 110: after an '=' line that found no closing line.
ResumeAfterOpener(lines, i) == i + 1

\* The items the generator yields, in order; i is a 1-based index.
RECURSIVE DetectLoop(_, _, _)
DetectLoop(lines, i, yielded) ==
    IF i > Len(lines) THEN yielded
    ELSE IF is_line_of_equals(lines[i])
         THEN LET bottom == FindBottom(lines, i + 1) IN
              IF bottom # 0
              THEN DetectLoop(lines, bottom + 1,
                       Append(yielded, <<"legal_page_title_block",
                                         SubSeq(lines, i + 1, bottom - 1)>>))
              ELSE DetectLoop(lines, ResumeAfterOpener(lines, i),
                       Append(yielded, <<"delimiter_line", lines[i]>>))
         ELSE IF is_line_of_dashes(lines[i])
              THEN DetectLoop(lines, i + 1,
                       Append(yielded, <<"delimiter_line", lines[i]>>))
              ELSE DetectLoop(lines, i + 1,
                       Append(yielded, <<"normal_line", lines[i]>>))

detect_legal_title_blocks(lines) == DetectLoop(lines, 1, <<>>)

(***************************************************************************)
(* parse_documents_from_text.                                              *)
(***************************************************************************)
\* Lines 541 and 544: the lines that open and close a sub-document.
IsDocumentDelimiter(line) == is_line_of_equals(line) \/ is_line_of_dashes(line)

\* Lines 542-546: the index of the first delimiter at or after j (0: none).
FindCloser(lines, j) ==
    IF \E k \in j..Len(lines) : IsDocumentDelimiter(lines[k])
    THEN CHOOSE k \in j..Len(lines) :
            /\ IsDocumentDelimiter(lines[k])
            /\ \A m \in j..(k - 1) : ~IsDocumentDelimiter(lines[m])
    ELSE 0

ResumeAtCloser(j) == j

\* Line 549: i = j + 1.
ResumeAfterCloser(j) == j + 1

\* Lines 540-553: the loop, from the 1-based index i.
RECURSIVE DocumentsLoop(_, _, _)
DocumentsLoop(lines, i, docs) ==
    IF i > Len(lines) THEN docs
    ELSE IF IsDocumentDelimiter(lines[i])
         THEN LET j == FindCloser(lines, i + 1) IN
              IF j # 0
              THEN DocumentsLoop(lines, ResumeAfterCloser(j),
                       Append(docs, Join(SubSeq(lines, i + 1, j - 1), NewLine)))
              ELSE docs
         ELSE DocumentsLoop(lines, i + 1, docs)

parse_documents_from_text(raw) == DocumentsLoop(SplitLines(raw), 1, <<>>)

(***************************************************************************)
(* parse_header_and_sections and classify_headings.                        *)
(***************************************************************************)
RomanNumerals == {"I", "V", "X", "L", "C", "D", "M"}

\* [IVXLCDM] under re.IGNORECASE.
IsRoman(c) == ToUpper(c) \in RomanNumerals

\* The number of leading characters of s that are Roman numerals.
RomanRun(s) ==
    IF \A i \in DOMAIN s : IsRoman(s[i]) THEN Len(s)
    ELSE (CHOOSE i \in DOMAIN s :
             ~IsRoman(s[i]) /\ \A j \in 1..(i - 1) : IsRoman(s[j])) - 1

\* The length of one [IVXLCDM]+\. or [0-9]+\. at the head of s (0: none).
NumberPartLength(s) ==
    LET r == RomanRun(s)
        d == Len(DigitPrefix(s))
    IN IF r > 0 /\ r < Len(s) /\ s[r + 1] = "." THEN r + 1
       ELSE IF d > 0 /\ d < Len(s) /\ s[d + 1] = "." THEN d + 1
       ELSE 0

\* The length of the longest (?:[IVXLCDM]+\.|[0-9]+\.)+ at the head of s.
RECURSIVE NumberLength(_)
NumberLength(s) ==
    LET part == NumberPartLength(s) IN
    IF part = 0 THEN 0 ELSE part + NumberLength(Drop(s, part))

NoHeading == [matched |-> FALSE, number |-> <<>>, title |-> <<>>]

\* Line 559: heading_pattern.match(line); number is group 1, title group 2.
HeadingMatch(line) ==
    LET n == NumberLength(line) IN
    IF n > 0 /\ n < Len(line) /\ IsSpace(line[n + 1])
    THEN [matched |-> TRUE, number |-> SubSeq(line, 1, n),
          title |-> LStrip(Drop(line, n))]
    ELSE NoHeading

\* ^[0-9]+\.\s*$ matched against s.
IsBareNumber(s) ==
    LET d == Len(DigitPrefix(s)) IN
    /\ d > 0
    /\ d < Len(s)
    /\ s[d + 1] = "."
    /\ \A i \in (d + 2)..Len(s) : IsSpace(s[i])

\* Lines 565-570 and 577-596: the three tests that make a line a heading.
IsHeadingLine(line) ==
    \/ HeadingMatch(line).matched
    \/ is_line_all_caps(Strip(line))
    \/ IsBareNumber(Strip(line))

\* Lines 581-596: the key under which a heading line opens its section.
HeadingKey(line) ==
    LET m == HeadingMatch(line) IN
    IF m.matched
    THEN LET heading_number == Strip(m.number)
             heading_title == Strip(m.title)
             without_dot ==
                 IF heading_number # <<>>
                    /\ heading_number[Len(heading_number)] = "."
                 THEN SubSeq(heading_number, 1, Len(heading_number) - 1)
                 ELSE heading_number
         IN without_dot \o <<" ">> \o heading_title
    ELSE Strip(line)

FirstHeadingLineAtStart(lines) == 1

\* Lines 563-572: the index of the first heading line (Len + 1: none).
FirstHeadingLine(lines) ==
    IF \E i \in DOMAIN lines : IsHeadingLine(lines[i])
    THEN CHOOSE i \in DOMAIN lines :
            /\ IsHeadingLine(lines[i])
            /\ \A j \in 1..(i - 1) : ~IsHeadingLine(lines[j])
    ELSE Len(lines) + 1

StoreSectionWithoutBody(st) ==
    IF st.current_heading_key # None
    THEN OdSet(st.sections_od, st.current_heading_key[1], <<>>)
    ELSE st.sections_od

\* Lines 579-580 and 601-602: store the body of the section being read.
StoreSection(st) ==
    IF st.current_heading_key # None
    THEN OdSet(st.sections_od, st.current_heading_key[1],
               Join(st.current_body_lines, NewLine))
    ELSE st.sections_od

\* Lines 575-600: the second loop, from the 1-based index idx.
RECURSIVE SectionLoop(_, _, _)
SectionLoop(lines, idx, st) ==
    IF idx > Len(lines) THEN StoreSection(st)
    ELSE IF IsHeadingLine(lines[idx])
         THEN SectionLoop(lines, idx + 1,
                  [sections_od |-> StoreSection(st),
                   current_heading_key |-> Some(HeadingKey(lines[idx])),
                   current_body_lines |-> <<>>])
         ELSE SectionLoop(lines, idx + 1,
                  [st EXCEPT !.current_body_lines = Append(@, lines[idx])])

parse_header_and_sections(raw) ==
    LET lines == SplitLines(raw)
        idx == FirstHeadingLine(lines)
    IN [header_od |-> <<<<"content", Join(SubSeq(lines, 1, idx - 1), NewLine)>>>>,
        sections_od |-> SectionLoop(lines, idx,
                            [sections_od |-> <<>>, current_heading_key |-> None,
                             current_body_lines |-> <<>>])]

CountDots(s) == Cardinality({i \in DOMAIN s : s[i] = "."})

HeadingStyleAnyDot(full_key) ==
    IF CountDots(SplitWords(full_key)[1]) > 0 THEN "subsection" ELSE "section"

\* Lines 607-617: the style of one key.
HeadingStyle(full_key) ==
    LET heading_number == SplitWords(full_key)[1] IN
    IF CountDots(heading_number) > 1 THEN "subsection" ELSE "section"

classify_headings(sections) ==
    [i \in DOMAIN sections |-> <<sections[i][1], HeadingStyle(sections[i][1])>>]

(***************************************************************************)
(* Segments: the dicts built by prepare_main_pdf_segments.  A key a dict   *)
(* does not hold reads as the falsy default of dict.get.                   *)
(***************************************************************************)
TextSegment(text, font_name, font_size, alignment, is_heading, is_subheading) ==
    [page_always_new |-> FALSE, delimiter_line |-> FALSE, lines |-> <<>>,
     text |-> text, font_name |-> font_name, font_size |-> font_size,
     alignment |-> alignment, is_heading |-> is_heading,
     is_subheading |-> is_subheading]

DelimiterSegment(font_size) ==
    [page_always_new |-> FALSE, delimiter_line |-> TRUE, lines |-> <<>>,
     text |-> <<>>, font_name |-> "Helvetica", font_size |-> font_size,
     alignment |-> "", is_heading |-> FALSE, is_subheading |-> FALSE]

TitleBlockSegment(lines_cleaned) ==
    [page_always_new |-> TRUE, delimiter_line |-> FALSE, lines |-> lines_cleaned,
     text |-> <<>>, font_name |-> "", font_size |-> 0,
     alignment |-> "", is_heading |-> FALSE, is_subheading |-> FALSE]

(***************************************************************************)
(* prepare_main_pdf_segments.                                              *)
(***************************************************************************)
RECURSIVE Flatten(_)
Flatten(seqs) == IF seqs = <<>> THEN <<>> ELSE Head(seqs) \o Flatten(Tail(seqs))

\* Lines 626-678: the segments of one buffered header line.
NormalLineSegments(line, width) ==
    LET line_str == Strip(line) IN
    IF line_str = <<>>
    THEN <<TextSegment(<<>>, "Helvetica", 10, "left", FALSE, FALSE)>>
    ELSE LET wrapped == wrap_text_to_lines(line_str, "Helvetica", 10, width)
             font_name == IF is_exhibit_reference(line_str)
                          THEN "Helvetica-Bold" ELSE "Helvetica"
             alignment == IF is_line_all_caps(line_str) THEN "center" ELSE "left"
         IN [k \in DOMAIN wrapped |->
                TextSegment(wrapped[k][1], font_name, 10, alignment, FALSE, FALSE)]

flush_normal_buffer(normal_buffer, width) ==
    Flatten([k \in DOMAIN normal_buffer |->
                NormalLineSegments(normal_buffer[k], width)])

\* Lines 681-701: the loop over the items of the header.
RECURSIVE HeaderLoop(_, _, _, _)
HeaderLoop(items, normal_buffer, segs, width) ==
    IF items = <<>> THEN segs \o flush_normal_buffer(normal_buffer, width)
    ELSE LET kind == Head(items)[1]
             block_lines == Head(items)[2]
         IN IF kind = "legal_page_title_block"
            THEN HeaderLoop(Tail(items), <<>>,
                     (segs \o flush_normal_buffer(normal_buffer, width))
                         \o <<TitleBlockSegment(
                                 [k \in DOMAIN block_lines |-> Strip(block_lines[k])])>>,
                     width)
            ELSE IF kind = "delimiter_line"
                 THEN HeaderLoop(Tail(items), <<>>,
                          (segs \o flush_normal_buffer(normal_buffer, width))
                              \o <<DelimiterSegment(10)>>,
                          width)
                 ELSE HeaderLoop(Tail(items), Append(normal_buffer, block_lines),
                                 segs, width)

\* Lines 754-785: the segments of one buffered line of a section body.
SectionLineSegments(line, body_font_name, body_font_size, width) ==
    LET line_str == Strip(line) IN
    IF line_str = <<>>
    THEN <<TextSegment(<<>>, body_font_name, body_font_size, "left", FALSE, FALSE)>>
    ELSE LET wrapped == wrap_text_to_lines(line_str, body_font_name,
                                           body_font_size, width)
             font_name == IF is_exhibit_reference(line_str)
                          THEN "Helvetica-Bold" ELSE body_font_name
         IN [k \in DOMAIN wrapped |->
                TextSegment(wrapped[k][1], font_name, body_font_size, "left",
                            FALSE, FALSE)]

flush_section_buffer(normal_buffer_sec, body_font_name, body_font_size, width) ==
    Flatten([k \in DOMAIN normal_buffer_sec |->
                SectionLineSegments(normal_buffer_sec[k], body_font_name,
                                    body_font_size, width)])

\* Lines 788-808: the loop over the items of a section body.
RECURSIVE SectionBodyLoop(_, _, _, _, _, _)
SectionBodyLoop(items, normal_buffer_sec, segs, body_font_name, body_font_size, width) ==
    LET flushed == segs \o flush_section_buffer(normal_buffer_sec, body_font_name,
                                                body_font_size, width)
    IN IF items = <<>> THEN flushed
       ELSE LET kind == Head(items)[1]
                block_lines == Head(items)[2]
            IN IF kind = "legal_page_title_block"
               THEN SectionBodyLoop(Tail(items), <<>>,
                        flushed \o <<TitleBlockSegment(
                            [k \in DOMAIN block_lines |-> Strip(block_lines[k])])>>,
                        body_font_name, body_font_size, width)
               ELSE IF kind = "delimiter_line"
                    THEN SectionBodyLoop(Tail(items), <<>>,
                             flushed \o <<DelimiterSegment(body_font_size)>>,
                             body_font_name, body_font_size, width)
                    ELSE SectionBodyLoop(Tail(items),
                             Append(normal_buffer_sec, block_lines), segs,
                             body_font_name, body_font_size, width)

\* Lines 703-808: the segments of one section.
SectionSegments(section_key, section_body, styles, width) ==
    LET style == IF OdHas(styles, section_key) THEN OdGet(styles, section_key)
                 ELSE "section"
        is_section == style = "section"
        heading_font_name == IF is_section THEN "Helvetica-Bold" ELSE "Helvetica"
        heading_font_size == IF is_section THEN 10 ELSE 9
        body_font_name == "Helvetica"
        body_font_size == IF is_section THEN 10 ELSE 9
        is_heading == is_section
        is_subheading == ~is_section
        heading_font == IF is_exhibit_reference(section_key)
                        THEN "Helvetica-Bold" ELSE heading_font_name
        heading_wrapped == wrap_text_to_lines(section_key, heading_font,
                                              heading_font_size, width)
    IN (<<TextSegment(<<>>, body_font_name, body_font_size, "left", FALSE, FALSE)>>
        \o [k \in DOMAIN heading_wrapped |->
               TextSegment(heading_wrapped[k][1], heading_font, heading_font_size,
                           "center", is_heading, is_subheading)])
       \o SectionBodyLoop(detect_legal_title_blocks(SplitLines(section_body)),
                          <<>>, <<>>, body_font_name, body_font_size, width)

prepare_main_pdf_segments(header_text, sections, styles, width) ==
    HeaderLoop(detect_legal_title_blocks(SplitLines(header_text)), <<>>, <<>>, width)
    \o Flatten([k \in DOMAIN sections |->
                   SectionSegments(sections[k][1], sections[k][2], styles, width)])

(***************************************************************************)
(* draw_page_of_segments.                                                  *)
(***************************************************************************)
\* A title block met after lines were placed on the page closes the page.
TitleNeverWaits(current_line_count) == FALSE

TitleAlwaysWaits(current_line_count) == TRUE

\* Line 207: a title block waits for the next page when lines were placed.
TitleMustWait(current_line_count) == current_line_count > 0

\* The gutter number printed beside a placed segment.
LineNumber(end_index) == end_index + 1

RecordHeadingTwice(positions, entry) == Append(Append(positions, entry), entry)

RecordHeadingFront(positions, entry) == <<entry>> \o positions

RecordHeading(positions, entry) == Append(positions, entry)

RECURSIVE DrawLoop(_, _, _, _, _, _)
DrawLoop(segs, end_index, current_line_count, max_lines, page_no, positions) ==
    IF end_index < Len(segs) /\ current_line_count < max_lines
    THEN LET seg == segs[end_index + 1] IN
         IF seg.page_always_new
         THEN IF TitleMustWait(current_line_count)
              THEN [end_index |-> end_index, heading_positions |-> positions,
                    title |-> FALSE]
              ELSE [end_index |-> end_index + 1, heading_positions |-> positions,
                    title |-> TRUE]
         ELSE LET line_number == LineNumber(end_index)
                  recorded ==
                      IF seg.is_heading \/ seg.is_subheading
                      THEN RecordHeading(positions,
                               <<seg.text, page_no, line_number, seg.is_subheading>>)
                      ELSE positions
              IN DrawLoop(segs, end_index + 1, current_line_count + 1,
                          max_lines, page_no, recorded)
    ELSE [end_index |-> end_index, heading_positions |-> positions, title |-> FALSE]

DrawSingleLinePage(segs, start_index, max_lines, page_no, positions) ==
    DrawLoop(segs, start_index, 0, 1, page_no, positions)

draw_page_of_segments(segs, start_index, max_lines, page_no, positions) ==
    DrawLoop(segs, start_index, 0, max_lines, page_no, positions)

(***************************************************************************)
(* generate_legal_document: the dry pass that counts the text pages.       *)
(***************************************************************************)
RECURSIVE DryScanNoBreak(_, _, _, _)
DryScanNoBreak(segs, local_i, lines_used, max_lines) ==
    IF local_i < Len(segs) /\ lines_used < max_lines
    THEN DryScanNoBreak(segs, local_i + 1, lines_used + 1, max_lines)
    ELSE local_i

RECURSIVE DryScanLoop(_, _, _, _)
DryScanLoop(segs, local_i, lines_used, max_lines) ==
    IF local_i < Len(segs) /\ lines_used < max_lines
    THEN IF segs[local_i + 1].page_always_new
         THEN local_i
         ELSE DryScanLoop(segs, local_i + 1, lines_used + 1, max_lines)
    ELSE local_i

DryScan(segs, local_i, lines_used, max_lines) ==
    DryScanLoop(segs, local_i, lines_used, max_lines)

\* The index at which the dry pass ends the page that starts at index.
DryPageEnd(segs, index, max_lines) ==
    IF segs[index + 1].page_always_new
    THEN index + 1
    ELSE DryScan(segs, index, 0, max_lines)

DryPassStep ==
    /\ pc = "dry"
    /\ current_index < Len(segments)
    /\ LET next_index == DryPageEnd(segments, current_index, max_lines_per_page) IN
       /\ text_pages' = text_pages + 1
       /\ current_index' = next_index
       /\ dry_pages' = Append(dry_pages, <<current_index, next_index>>)
    /\ UNCHANGED <<pc, segments, max_lines_per_page, total_pages_est, page_number,
                   heading_positions, pages>>
    /\ UNCHANGED <<wrapVars, exhibitVars, tocVars, docVars>>
    /\ UNCHANGED scanVars
    /\ UNCHANGED genVars

\* Lines 1153-1158: the footer total, then the real pass starts at page 1.
DryPassEnd ==
    /\ pc = "dry"
    /\ current_index >= Len(segments)
    /\ total_pages_est' = text_pages + Len(exhibits) * 2
    /\ page_number' = 1
    /\ current_index' = 0
    /\ pc' = "place"
    /\ UNCHANGED <<segments, max_lines_per_page, text_pages, heading_positions,
                   dry_pages, pages>>
    /\ UNCHANGED <<wrapVars, exhibitVars, tocVars, docVars>>
    /\ UNCHANGED scanVars
    /\ UNCHANGED genVars

(***************************************************************************)
(* generate_legal_document: the real placement pass.                       *)
(***************************************************************************)
DrawPage ==
    /\ pc = "place"
    /\ current_index < Len(segments)
    /\ LET drawn == draw_page_of_segments(segments, current_index,
                        max_lines_per_page, page_number, heading_positions) IN
       /\ heading_positions' = drawn.heading_positions
       /\ pages' = Append(pages, [page_number |-> page_number,
                                  total_pages |-> total_pages_est,
                                  start |-> current_index,
                                  end |-> drawn.end_index,
                                  title |-> drawn.title])
       /\ page_number' = page_number + 1
       /\ current_index' = drawn.end_index
    /\ UNCHANGED <<pc, segments, max_lines_per_page, text_pages, total_pages_est,
                   dry_pages>>
    /\ UNCHANGED <<wrapVars, exhibitVars, tocVars, docVars>>
    /\ UNCHANGED scanVars
    /\ UNCHANGED genVars

PlaceEnd ==
    /\ pc = "place"
    /\ current_index >= Len(segments)
    /\ pc' = "placed"
    /\ UNCHANGED <<pagVars, wrapVars, exhibitVars, tocVars, docVars>>
    /\ UNCHANGED scanVars
    /\ UNCHANGED genVars

(***************************************************************************)
(* Spec: generate_legal_document's two passes over any segment sequence.   *)
(***************************************************************************)
HeadingText == <<"H">>
SubheadingText == <<"S">>
BodyText == <<"b">>

SampleSegments ==
    { TitleBlockSegment(<<<<"T">>>>),
      TextSegment(HeadingText, "Helvetica-Bold", 10, "center", TRUE, FALSE),
      TextSegment(SubheadingText, "Helvetica", 9, "center", FALSE, TRUE),
      TextSegment(BodyText, "Helvetica", 10, "left", FALSE, FALSE),
      DelimiterSegment(10) }

PagInit ==
    /\ current_index = 0
    /\ text_pages = 0
    /\ total_pages_est = 0
    /\ page_number = 1
    /\ heading_positions = <<>>
    /\ dry_pages = <<>>
    /\ pages = <<>>
    /\ exhibit_idx = 0
    /\ exhibit_pages = <<>>

WrapIdle ==
    /\ full_text = <<>>
    /\ max_width = 0
    /\ all_lines = <<>>
    /\ rewrapped = <<>>

ExhibitIdle ==
    /\ exhibit_text = <<>>
    /\ text_exhibits_od = <<>>
    /\ exhibits_od = <<>>

TocIdle == toc_positions = <<>>

ScanIdle ==
    /\ scan_text = <<>>
    /\ title_items = <<>>
    /\ found_documents = <<>>

DocIdle ==
    /\ raw_text = <<>>
    /\ header_od = <<>>
    /\ sections_od = <<>>
    /\ heading_styles = <<>>
    /\ max_text_width = 0

Init ==
    /\ pc = "dry"
    /\ segments \in SeqsUpTo(SampleSegments, MaxSegs)
    /\ max_lines_per_page \in 1..MaxLPP
    /\ exhibits = <<>>
    /\ PagInit
    /\ WrapIdle
    /\ ExhibitIdle
    /\ TocIdle
    /\ DocIdle
    /\ ScanIdle

Next == DryPassStep \/ DryPassEnd \/ DrawPage \/ PlaceEnd

Spec == Init /\ [][Next]_vars

(***************************************************************************)
(* SpecWrap: wrap_text_to_lines applied to any text over WrapAlphabet at   *)
(* the body font, then applied again to each line it returned.             *)
(***************************************************************************)
BodyFontName == "Helvetica"
BodyFontSize == 10

WrapAlphabet == {"a", "i", " ", "\n"}

PagIdle ==
    /\ segments = <<>>
    /\ max_lines_per_page = 1
    /\ exhibits = <<>>
    /\ PagInit

WrapInit ==
    /\ pc = "wrap"
    /\ full_text \in SeqsUpTo(WrapAlphabet, MaxTextLen)
    /\ max_width \in {w * BodyFontSize : w \in 1..MaxWidth}
    /\ all_lines = <<>>
    /\ rewrapped = <<>>
    /\ PagIdle
    /\ ExhibitIdle
    /\ TocIdle
    /\ DocIdle
    /\ ScanIdle

WrapText ==
    /\ pc = "wrap"
    /\ all_lines' = wrap_text_to_lines(full_text, BodyFontName, BodyFontSize, max_width)
    /\ pc' = "wrapped"
    /\ UNCHANGED <<full_text, max_width, rewrapped, pagVars, exhibitVars, tocVars, docVars>>
    /\ UNCHANGED scanVars
    /\ UNCHANGED genVars

RewrapLines ==
    /\ pc = "wrapped"
    /\ rewrapped' = [i \in DOMAIN all_lines |->
                       wrap_text_to_lines(all_lines[i][1], BodyFontName,
                                          BodyFontSize, max_width)]
    /\ pc' = "rewrapped"
    /\ UNCHANGED <<full_text, max_width, all_lines, pagVars, exhibitVars, tocVars, docVars>>
    /\ UNCHANGED scanVars
    /\ UNCHANGED genVars

WrapNext == WrapText \/ RewrapLines

SpecWrap == WrapInit /\ [][WrapNext]_vars


(***************************************************************************)
(* SpecExhibits: parse_exhibits_from_text on any text of up to MaxExLines  *)
(* of the sample lines, then the renumbering of main.                      *)
(***************************************************************************)
ExLine3C == <<"E", "X", "H", "I", "B", "I", "T", " ", "3", ":", " ", "C">>
ExLine1A == <<"E", "X", "H", "I", "B", "I", "T", " ", "1", ":", " ", "A">>
ExLine1Dup == <<"E", "X", "H", "I", "B", "I", "T", " ", "1", ":", " ", "A", "-", "d", "u", "p">>
ExLine5E == <<"E", "X", "H", "I", "B", "I", "T", " ", "5", ":", " ", "E">>
ExLine01Z == <<"e", "x", "h", "i", "b", "i", "t", " ", "0", "1", ":", " ", "Z">>
ExLineMore == <<"m", "o", "r", "e">>

ExhibitSampleLines ==
    {ExLine3C, ExLine1A, ExLine1Dup, ExLine5E, ExLine01Z, ExLineMore}

ExhibitsInit ==
    /\ pc = "exhibits"
    /\ \E lines \in SeqsUpTo(ExhibitSampleLines, MaxExLines) :
          exhibit_text = Join(lines, NewLine)
    /\ text_exhibits_od = <<>>
    /\ exhibits_od = <<>>
    /\ PagIdle
    /\ WrapIdle
    /\ TocIdle
    /\ DocIdle
    /\ ScanIdle

\* main, line 1282.
ParseExhibits ==
    /\ pc = "exhibits"
    /\ text_exhibits_od' = parse_exhibits_from_text(exhibit_text)
    /\ pc' = "parsed"
    /\ UNCHANGED <<exhibit_text, exhibits_od, pagVars, wrapVars, tocVars,
                   docVars>>
    /\ UNCHANGED scanVars
    /\ UNCHANGED genVars

\* main, lines 1286-1293.
Renumber ==
    /\ pc = "parsed"
    /\ exhibits_od' = RenumberExhibits(text_exhibits_od)
    /\ pc' = "renumbered"
    /\ UNCHANGED <<exhibit_text, text_exhibits_od, pagVars, wrapVars, tocVars,
                   docVars>>
    /\ UNCHANGED scanVars
    /\ UNCHANGED genVars

ExhibitsNext == ParseExhibits \/ Renumber

SpecExhibits == ExhibitsInit /\ [][ExhibitsNext]_vars

(***************************************************************************)
(* SpecToc: filter_headings_for_toc on any list of up to MaxHeadings       *)
(* heading coordinates whose texts are the sample texts.                   *)
(***************************************************************************)
TocIntro == <<"I", ".", " ", "I", "n", "t", "r", "o">>
TocExhibit1 == <<"E", "X", "H", "I", "B", "I", "T", " ", "1", ":", " ", "P", "h", "o", "t", "o">>
TocRandom == <<"I", "I", ".", " ", "R", "a", "n", "d", "o", "m">>
TocSpecial == <<"S", "P", "E", "C", "I", "A", "L", " ", "E", "X", "H", "I", "B", "I", "T", "S">>
TocLedger == <<"I", "I", "I", ".", " ", "L", "e", "d", "g", "e", "r">>
TocSpecialLoose == <<" ", "S", "p", "e", "c", "i", "a", "l", " ", "E", "x", "h", "i", "b", "i", "t", "s">>

TocSampleTexts ==
    {TocIntro, TocExhibit1, TocRandom, TocSpecial, TocLedger, TocSpecialLoose}

\* Coordinates as the paginator records them: line numbers grow, pages do
\* not decrease.
TocPositions(texts) ==
    [i \in DOMAIN texts |-> <<texts[i], 1 + (i \div 2), i, FALSE>>]

TocInit ==
    /\ pc = "filter"
    /\ segments = <<>>
    /\ max_lines_per_page = 1
    /\ current_index = 0
    /\ text_pages = 0
    /\ total_pages_est = 0
    /\ page_number = 1
    /\ \E texts \in SeqsUpTo(TocSampleTexts, MaxHeadings) :
          heading_positions = TocPositions(texts)
    /\ dry_pages = <<>>
    /\ pages = <<>>
    /\ exhibits = <<>>
    /\ exhibit_idx = 0
    /\ exhibit_pages = <<>>
    /\ toc_positions = <<>>
    /\ WrapIdle
    /\ ExhibitIdle
    /\ DocIdle
    /\ ScanIdle

\* main, line 1380.
FilterHeadings ==
    /\ pc = "filter"
    /\ toc_positions' = filter_headings_for_toc(heading_positions)
    /\ pc' = "filtered"
    /\ UNCHANGED <<pagVars, wrapVars, exhibitVars, docVars>>
    /\ UNCHANGED scanVars
    /\ UNCHANGED genVars

TocNext == FilterHeadings

SpecToc == TocInit /\ [][TocNext]_vars

(***************************************************************************)
(* SpecRefilter: filter_headings_for_toc on any list of up to MaxHeadings  *)
(* heading coordinates, then on its own result.                            *)
(***************************************************************************)
RefilterSampleTexts == {TocIntro, TocExhibit1, TocSpecial, TocLedger}

RefilterInit ==
    /\ pc = "filter"
    /\ \E texts \in SeqsUpTo(RefilterSampleTexts, MaxHeadings) :
          heading_positions = TocPositions(texts)
    /\ segments = <<>>
    /\ max_lines_per_page = 1
    /\ current_index = 0
    /\ text_pages = 0
    /\ total_pages_est = 0
    /\ page_number = 1
    /\ dry_pages = <<>>
    /\ pages = <<>>
    /\ exhibits = <<>>
    /\ exhibit_idx = 0
    /\ exhibit_pages = <<>>
    /\ toc_positions = <<>>
    /\ WrapIdle
    /\ ExhibitIdle
    /\ DocIdle
    /\ ScanIdle

\* filter_headings_for_toc applied to its own result.
FilterAgain ==
    /\ pc = "filtered"
    /\ toc_positions' = filter_headings_for_toc(toc_positions)
    /\ pc' = "refiltered"
    /\ UNCHANGED <<pagVars, wrapVars, exhibitVars, docVars>>
    /\ UNCHANGED scanVars
    /\ UNCHANGED genVars

RefilterNext == FilterHeadings \/ FilterAgain

SpecRefilter == RefilterInit /\ [][RefilterNext]_vars

(***************************************************************************)
(* SpecDoc: the pipeline from the raw text to the placed pages, on any     *)
(* text of up to MaxDocLines of the sample lines.                          *)
(***************************************************************************)
DocEqualsRule == <<"=", "=", "=", "=", "=">>
DocDashRule == <<"-", "-", "-", "-", "-">>
DocLowerLine == <<"t", "i", "t", "l", "e">>
DocCapsLine == <<"C", "A", "S", "E", " ", "T", "I", "T", "L", "E">>
DocNumberedLine == <<"1", ".", " ", "I", "n", "t", "r", "o">>

DocSampleLines ==
    {DocEqualsRule, DocDashRule, DocLowerLine, DocCapsLine, DocNumberedLine}

\* One width at which the longer sample lines wrap and one at which none does.
DocTextWidths == {2 * MaxWidth * BodyFontSize, 4 * MaxWidth * BodyFontSize}

DocInit ==
    /\ pc = "parse"
    /\ \E lines \in SeqsUpTo(DocSampleLines, MaxDocLines) :
          raw_text = Join(lines, NewLine)
    /\ header_od = <<>>
    /\ sections_od = <<>>
    /\ heading_styles = <<>>
    /\ max_text_width \in DocTextWidths
    /\ segments = <<>>
    /\ max_lines_per_page \in 1..MaxLPP
    /\ exhibits = <<>>
    /\ PagInit
    /\ WrapIdle
    /\ ExhibitIdle
    /\ TocIdle
    /\ ScanIdle

\* main, line 1284.
ParseHeaderAndSections ==
    /\ pc = "parse"
    /\ LET parsed == parse_header_and_sections(raw_text) IN
       /\ header_od' = parsed.header_od
       /\ sections_od' = parsed.sections_od
    /\ pc' = "prepare"
    /\ UNCHANGED <<raw_text, heading_styles, max_text_width>>
    /\ UNCHANGED <<pagVars, wrapVars, exhibitVars, tocVars>>
    /\ UNCHANGED scanVars
    /\ UNCHANGED genVars

\* generate_legal_document, lines 1115-1136.
PrepareSegments ==
    /\ pc = "prepare"
    /\ LET styles == classify_headings(sections_od) IN
       /\ heading_styles' = styles
       /\ segments' = prepare_main_pdf_segments(
                          IF OdHas(header_od, "content")
                          THEN OdGet(header_od, "content") ELSE <<>>,
                          sections_od, styles, max_text_width)
    /\ current_index' = 0
    /\ text_pages' = 0
    /\ pc' = "dry"
    /\ UNCHANGED <<max_lines_per_page, total_pages_est, page_number,
                   heading_positions, dry_pages, pages>>
    /\ UNCHANGED <<raw_text, header_od, sections_od, max_text_width>>
    /\ UNCHANGED <<wrapVars, exhibitVars, tocVars>>
    /\ UNCHANGED scanVars
    /\ UNCHANGED genVars

DocNext ==
    \/ ParseHeaderAndSections
    \/ PrepareSegments
    \/ DryPassStep
    \/ DryPassEnd
    \/ DrawPage
    \/ PlaceEnd

SpecDoc == DocInit /\ [][DocNext]_vars

(***************************************************************************)
(* SpecParse: parse_header_and_sections, classify_headings and the segment *)
(* builder on any text of up to MaxParseLines of the heading samples.      *)
(***************************************************************************)
\* The line "<number>. <title>": the parts of the number joined by dots, a
\* dot, the gap, the title.
NumberedHeading(parts, gap, title) ==
    ((Join(parts, <<".">>) \o <<".">>) \o gap) \o title

ParseIntroNumber == <<<<"1">>>>
ParseIntroTitle == <<"I", "n", "t", "r", "o">>
ParseDamagesNumber == <<<<"1">>, <<"2">>>>
ParseDamagesTitle == <<"D", "a", "m", "a", "g", "e", "s">>
ParseLossNumber == <<<<"I", "V">>, <<"2">>, <<"1">>>>
ParseLossTitle == <<"L", "o", "s", "s", " ">>

\* <<parts, gap, title>> of the numbered sample lines.
ParseNumberedSamples ==
    {<<ParseIntroNumber, <<" ">>, ParseIntroTitle>>,
     <<ParseDamagesNumber, <<" ">>, ParseDamagesTitle>>,
     <<ParseLossNumber, <<"\t", " ">>, ParseLossTitle>>}

ParseNoFinalDot == <<"1", ".", "2", ".", "3", " ", "S", "u", "b">>
ParseCapsLine == <<"C", "A", "S", "E", " ", "T", "I", "T", "L", "E">>
ParseCapsDots == <<"U", ".", "S", ".", "A", ".", " ", "C", "O", "R", "P">>
ParseBareNumber == <<"1", ".">>
ParseBodyLine == <<"b", "o", "d", "y">>

ParseSampleLines ==
    {NumberedHeading(n[1], n[2], n[3]) : n \in ParseNumberedSamples}
    \cup {ParseNoFinalDot, ParseCapsLine, ParseCapsDots, ParseBareNumber,
          ParseBodyLine}

ParseInit ==
    /\ pc = "parse"
    /\ \E lines \in SeqsUpTo(ParseSampleLines, MaxParseLines) :
          raw_text = Join(lines, NewLine)
    /\ header_od = <<>>
    /\ sections_od = <<>>
    /\ heading_styles = <<>>
    /\ max_text_width \in DocTextWidths
    /\ segments = <<>>
    /\ max_lines_per_page = MaxLPP
    /\ exhibits = <<>>
    /\ PagInit
    /\ WrapIdle
    /\ ExhibitIdle
    /\ TocIdle
    /\ ScanIdle

ParseNext == ParseHeaderAndSections \/ PrepareSegments

SpecParse == ParseInit /\ [][ParseNext]_vars

(***************************************************************************)
(* SpecScan: detect_legal_title_blocks and parse_documents_from_text on    *)
(* any text of up to MaxScanLines of the sample lines.                     *)
(***************************************************************************)
ScanEqualsRule == <<"=", "=", "=", "=", "=">>
ScanPaddedRule == <<" ", "=", "=", "=", "=", "=", "=", " ">>
ScanShortRule == <<"=", "=", "=", "=">>
ScanDashRule == <<"-", "-", "-", "-", "-">>
ScanTextLine == <<"t", "e", "x", "t">>

ScanSampleLines ==
    {ScanEqualsRule, ScanPaddedRule, ScanShortRule, ScanDashRule, ScanTextLine}

ScanInit ==
    /\ pc = "scan"
    /\ \E lines \in SeqsUpTo(ScanSampleLines, MaxScanLines) :
          scan_text = Join(lines, NewLine)
    /\ title_items = <<>>
    /\ found_documents = <<>>
    /\ PagIdle
    /\ WrapIdle
    /\ ExhibitIdle
    /\ TocIdle
    /\ DocIdle

\* prepare_main_pdf_segments, lines 622 and 681: the scan of a line range.
DetectTitleBlocks ==
    /\ pc = "scan"
    /\ title_items' = detect_legal_title_blocks(SplitLines(scan_text))
    /\ pc' = "scanned"
    /\ UNCHANGED <<scan_text, found_documents>>
    /\ UNCHANGED <<pagVars, wrapVars, exhibitVars, tocVars, docVars>>
    /\ UNCHANGED genVars

\* main, line 1299.
ParseDocuments ==
    /\ pc = "scanned"
    /\ found_documents' = parse_documents_from_text(scan_text)
    /\ pc' = "split"
    /\ UNCHANGED <<scan_text, title_items>>
    /\ UNCHANGED <<pagVars, wrapVars, exhibitVars, tocVars, docVars>>
    /\ UNCHANGED genVars

ScanNext == DetectTitleBlocks \/ ParseDocuments

SpecScan == ScanInit /\ [][ScanNext]_vars

(***************************************************************************)
(* SpecSegments: prepare_main_pdf_segments taken on its own, on any header *)
(* of up to MaxBodyLines sample lines and at most one section whose body   *)
(* is up to MaxBodyLines sample lines.  The sample lines include an        *)
(* ALL-CAPS line, which parse_header_and_sections never leaves in a header *)
(* or in a body.                                                           *)
(***************************************************************************)
SegCapsLine == <<"N", "O", "T", "E", " ", "W", "E", "L", "L">>
SegLowerLine == <<"b", "o", "d", "y", " ", "t", "e", "x", "t">>
SegBlankLine == <<>>
SegDashRule == <<"-", "-", "-", "-", "-">>

SegSampleLines == {SegCapsLine, SegLowerLine, SegBlankLine, SegDashRule}

SegSectionKey == <<"C", "A", "S", "E", " ", "T", "I", "T", "L", "E">>
SegSubsectionKey == <<"I", "V", ".", "2", ".", "1", " ", "L", "o", "s", "s">>

SegSampleTexts == {Join(lines, NewLine) : lines \in SeqsUpTo(SegSampleLines, MaxBodyLines)}

SegmentsInit ==
    /\ pc = "prepare"
    /\ raw_text = <<>>
    /\ \E text \in SegSampleTexts : header_od = <<<<"content", text>>>>
    /\ \/ sections_od = <<>>
       \/ \E key \in {SegSectionKey, SegSubsectionKey}, body \in SegSampleTexts :
             sections_od = <<<<key, body>>>>
    /\ heading_styles = <<>>
    /\ max_text_width \in DocTextWidths
    /\ segments = <<>>
    /\ max_lines_per_page = MaxLPP
    /\ exhibits = <<>>
    /\ PagInit
    /\ WrapIdle
    /\ ExhibitIdle
    /\ TocIdle
    /\ ScanIdle

SegmentsNext == PrepareSegments

SpecSegments == SegmentsInit /\ [][SegmentsNext]_vars

(***************************************************************************)
(* Properties of the paginator.                                            *)
(***************************************************************************)
IsTitle(k) == segments[k + 1].page_always_new

PageHolds(p, k) == pages[p].start <= k /\ k < pages[p].end

\* C1: title-block atomicity.  A page that holds a ForcedTitleBlock
\* (page_always_new) holds that one segment and nothing before or after it,
\* and once the placement pass has ended every ForcedTitleBlock lies on
\* exactly one page.
C1_TitleBlockAtomicity ==
    /\ \A p \in DOMAIN pages :
          (\E k \in 0..(Len(segments) - 1) : IsTitle(k) /\ PageHolds(p, k))
              => /\ pages[p].end = pages[p].start + 1
                 /\ pages[p].title
    /\ pc = "placed" =>
          \A k \in 0..(Len(segments) - 1) :
              IsTitle(k) => Cardinality({p \in DOMAIN pages : PageHolds(p, k)}) = 1

\* C1 witness: a title block placed between two ordinary segments, with the
\* line budget not yet used up when it is met.
C1_Witness ==
    /\ pc = "placed"
    /\ max_lines_per_page >= 2
    /\ \E k \in 1..(Len(segments) - 2) :
          IsTitle(k) /\ ~IsTitle(k - 1) /\ ~IsTitle(k + 1)

\* C3: heading order monotonicity.  The page numbers of heading_positions
\* are non-decreasing in list order.
C3_HeadingPagesMonotone ==
    \A i, j \in DOMAIN heading_positions :
        i < j => heading_positions[i][2] <= heading_positions[j][2]

\* C3 witness: the pass has ended with headings recorded on different pages.
C3_Witness ==
    /\ pc = "placed"
    /\ \E i, j \in DOMAIN heading_positions :
          i < j /\ heading_positions[i][2] < heading_positions[j][2]

\* C4: two-pass agreement.  The pages of the real pass are, one for one, the
\* segment ranges the dry pass counted, and at the end text_pages is the
\* number of pages the real pass emitted.
C4_TwoPassAgreement ==
    /\ Len(pages) <= Len(dry_pages)
    /\ \A p \in DOMAIN pages :
          dry_pages[p] = <<pages[p].start, pages[p].end>>
    /\ pc = "placed" => text_pages = Len(pages) /\ Len(dry_pages) = Len(pages)

\* C4 witness: the pass has ended with a page closed by a title block, a
\* title-block page and a page closed by the line budget.
C4_Witness ==
    /\ pc = "placed"
    /\ \E p \in DOMAIN pages : pages[p].title
    /\ \E p \in DOMAIN pages :
          /\ pages[p].end - pages[p].start < max_lines_per_page
          /\ pages[p].end < Len(segments)
          /\ ~pages[p].title
    /\ \E p \in DOMAIN pages :
          /\ pages[p].end - pages[p].start = max_lines_per_page
          /\ pages[p].end < Len(segments)
          /\ ~IsTitle(pages[p].end)


(***************************************************************************)
(* Properties of the text wrapper.                                         *)
(***************************************************************************)
RECURSIVE WordsOfLines(_)
WordsOfLines(wrapped_lines) ==
    IF wrapped_lines = <<>> THEN <<>>
    ELSE SplitWords(Head(wrapped_lines)[1]) \o WordsOfLines(Tail(wrapped_lines))

Wrapped == pc \in {"wrapped", "rewrapped"}

SingleParagraph == "\n" \notin Range(full_text)

BodyWidth(text) == stringWidth(text, BodyFontName, BodyFontSize)

\* C5: wrap coverage.  For a paragraph without embedded newlines the words
\* of the returned lines, concatenated in output order, are the paragraph's
\* whitespace-delimited words: none lost, duplicated, split or reordered.
C5_WrapCoverage ==
    (Wrapped /\ SingleParagraph) =>
        WordsOfLines(all_lines) = SplitWords(full_text)

\* C5 witness: a paragraph of three or more words wrapped into two or more
\* lines, one of which holds two words.
C5_Witness ==
    /\ pc = "wrapped"
    /\ SingleParagraph
    /\ Len(SplitWords(full_text)) >= 3
    /\ Len(all_lines) >= 2
    /\ \E i \in DOMAIN all_lines : Len(SplitWords(all_lines[i][1])) >= 2

\* C6: oversized word.  A word wider than max_width is emitted unsplit and
\* alone on its line; every line of two or more words measures at most
\* max_width.
C6_OversizedWordAlone ==
    (Wrapped /\ SingleParagraph) =>
        /\ \A i \in DOMAIN all_lines :
              LET ws == SplitWords(all_lines[i][1]) IN
              /\ (\E k \in DOMAIN ws : BodyWidth(ws[k]) > max_width)
                     => Len(ws) = 1 /\ all_lines[i][1] = ws[1]
              /\ Len(ws) >= 2 => BodyWidth(all_lines[i][1]) <= max_width
        /\ \A k \in DOMAIN SplitWords(full_text) :
              LET word == SplitWords(full_text)[k] IN
              BodyWidth(word) > max_width
                  => \E i \in DOMAIN all_lines : all_lines[i][1] = word

\* C6 witness: an oversized word between two words that fit.
C6_Witness ==
    /\ pc = "wrapped"
    /\ SingleParagraph
    /\ LET words == SplitWords(full_text) IN
       /\ Len(words) = 3
       /\ BodyWidth(words[1]) <= max_width
       /\ BodyWidth(words[2]) > max_width
       /\ BodyWidth(words[3]) <= max_width

\* C7: wrap idempotence.  A paragraph with at least one word whose words,
\* joined by single spaces, measure at most max_width wraps to exactly that
\* one line with was_wrapped false, and wrapping that line again returns
\* the same result.
C7_WrapIdempotence ==
    LET words == SplitWords(full_text)
        joined == Join(words, <<" ">>)
    IN (Wrapped /\ SingleParagraph /\ words # <<>> /\ BodyWidth(joined) <= max_width)
           => /\ all_lines = << <<joined, FALSE>> >>
              /\ pc = "rewrapped" => rewrapped = << all_lines >>

\* C7 witness: a paragraph of two words with surplus spaces that measures
\* exactly max_width once joined, wrapped and wrapped again.
C7_Witness ==
    LET words == SplitWords(full_text)
        joined == Join(words, <<" ">>)
    IN /\ pc = "rewrapped"
       /\ SingleParagraph
       /\ Len(words) >= 2
       /\ joined # full_text
       /\ BodyWidth(joined) = max_width


(***************************************************************************)
(* Properties of the exhibit parser.  A block is an exhibit marker line    *)
(* with the lines that follow it up to the next marker line.               *)
(***************************************************************************)
ExhibitLines == SplitLines(exhibit_text)

MarkerLines == {i \in DOMAIN ExhibitLines : ExhibitMatch(ExhibitLines[i]).matched}

SourceToken(i) == ExhibitMatch(ExhibitLines[i]).number

SourceNumber(i) == ParseInt(SourceToken(i))

BlockEnd(i) ==
    IF \E j \in MarkerLines : j > i
    THEN KthSmallest({j \in MarkerLines : j > i}, 1) - 1
    ELSE Len(ExhibitLines)

BlockContent(i) ==
    LET start_text == ExhibitMatch(ExhibitLines[i]).start_text IN
    Join((IF start_text # <<>> THEN <<start_text>> ELSE <<>>)
             \o SubSeq(ExhibitLines, i + 1, BlockEnd(i)),
         NewLine)

DistinctNumbers == {SourceNumber(i) : i \in MarkerLines}

FirstOccurrence(n) == KthSmallest({i \in MarkerLines : SourceNumber(i) = n}, 1)

NumberSeenBefore(j) == \E i \in MarkerLines : i < j /\ SourceNumber(i) = SourceNumber(j)

TokenSeenBefore(j) == \E i \in MarkerLines : i < j /\ SourceToken(i) = SourceToken(j)

\* C8: exhibit renumbering.  The output exhibits carry the numbers 1..N in
\* order, N being the number of distinct source numbers, and the k-th one has
\* the caption of the first occurrence of the k-th smallest source number.
C8_ExhibitRenumbering ==
    pc = "renumbered" =>
        /\ Len(exhibits_od) = Cardinality(DistinctNumbers)
        /\ \A k \in DOMAIN exhibits_od :
              /\ exhibits_od[k][1] = IntToStr(k)
              /\ k <= Cardinality(DistinctNumbers) =>
                    exhibits_od[k][2].caption =
                        BlockContent(FirstOccurrence(KthSmallest(DistinctNumbers, k)))

\* C9: duplicate exhibit voiding.  The block of a marker whose number was
\* already seen is the content of no exhibit (unless a kept block has the same
\* text), and the first occurrence of every number is stored with its own
\* content.
C9_DuplicateVoiding ==
    pc \in {"parsed", "renumbered"} =>
        /\ \A j \in MarkerLines :
              NumberSeenBefore(j) =>
                  \A e \in DOMAIN text_exhibits_od :
                      text_exhibits_od[e][2] = BlockContent(j)
                          => \E i \in MarkerLines :
                                /\ ~NumberSeenBefore(i)
                                /\ BlockContent(i) = BlockContent(j)
        /\ \A n \in DistinctNumbers :
              \E e \in DOMAIN text_exhibits_od :
                  /\ ParseInt(text_exhibits_od[e][1]) = n
                  /\ text_exhibits_od[e][2] = BlockContent(FirstOccurrence(n))

\* What the code does keep: one exhibit per distinct number token (the digit
\* string of the marker), in the order of first occurrence, with the content
\* of that first occurrence; "1" and "01" are different tokens.
FirstTokens == {i \in MarkerLines : ~TokenSeenBefore(i)}

ExhibitsKeptByToken ==
    pc \in {"parsed", "renumbered"} =>
        text_exhibits_od =
            [k \in 1..Cardinality(FirstTokens) |->
                <<SourceToken(KthSmallest(FirstTokens, k)),
                  BlockContent(KthSmallest(FirstTokens, k))>>]


(***************************************************************************)
(* Properties of the table-of-contents filter.                             *)
(***************************************************************************)
HeadingTexts == [i \in DOMAIN heading_positions |-> heading_positions[i][1]]

\* The first index in idx whose heading text satisfies Test (0: none).
FirstHeading(idx, Test(_)) ==
    IF \E i \in idx : Test(HeadingTexts[i])
    THEN CHOOSE i \in idx :
            /\ Test(HeadingTexts[i])
            /\ \A j \in idx : j < i => ~Test(HeadingTexts[j])
    ELSE 0

IsSpecialText(t) == UpperCase(Strip(t)) = SpecialExhibitsText

\* C10: TOC filter.  The result holds, in order and unchanged, the headings
\* up to and including the first exhibit reference, and those from the first
\* later heading whose trimmed text is "SPECIAL EXHIBITS" in any case on; the
\* headings in between are suppressed.
C10_TocFilter ==
    pc = "filtered" =>
        LET n == Len(heading_positions)
            first_exhibit == FirstHeading(1..n, is_exhibit_reference)
            first_special ==
                FirstHeading((first_exhibit + 1)..n, IsSpecialText)
        IN toc_positions =
              IF first_exhibit = 0 THEN heading_positions
              ELSE SubSeq(heading_positions, 1, first_exhibit)
                   \o (IF first_special = 0 THEN <<>>
                       ELSE SubSeq(heading_positions, first_special, n))

\* C10 witness: the example of the claim, filtered.
C10_Witness ==
    /\ pc = "filtered"
    /\ HeadingTexts = <<TocIntro, TocExhibit1, TocRandom, TocSpecial, TocLedger>>
    /\ [k \in DOMAIN toc_positions |-> toc_positions[k][1]]
           = <<TocIntro, TocExhibit1, TocSpecial, TocLedger>>


(***************************************************************************)
(* Properties of the pipeline from the raw text to the pages.              *)
(***************************************************************************)
RawLines == SplitLines(raw_text)

EqualsRules == {i \in DOMAIN RawLines : is_line_of_equals(RawLines[i])}

\* The '=' rules paired in order of occurrence: <<i, j>> when rule i is the
\* (2k-1)-th and rule j the (2k)-th '=' rule of the input.
MatchedPairs ==
    {<<KthSmallest(EqualsRules, 2 * k - 1), KthSmallest(EqualsRules, 2 * k)>> :
        k \in 1..(Cardinality(EqualsRules) \div 2)}

\* The lines between the rules of a pair, as a title block holds them.
PairContent(pair) ==
    [m \in 1..(pair[2] - pair[1] - 1) |-> Strip(RawLines[pair[1] + m])]

\* Some page holds, alone, a title block with the content of the pair.
OnPageOfItsOwn(pair) ==
    \E k \in DOMAIN segments :
        /\ segments[k] = TitleBlockSegment(PairContent(pair))
        /\ \E p \in DOMAIN pages :
              pages[p].start = k - 1 /\ pages[p].end = k

\* C2: end to end, the content between each matched pair of '=' rules of the
\* input becomes a title block segment placed on a page of its own, whatever
\* the lines between the two rules are.
C2_TitleBlockEndToEnd ==
    pc = "placed" =>
        \A pair \in MatchedPairs :
            pair[2] > pair[1] + 1 => OnPageOfItsOwn(pair)

\* No heading line lies between the two rules of a matched pair, and no two
\* heading lines give the same section key.
HeadingsClearOfPairs ==
    /\ \A pair \in MatchedPairs : \A i \in (pair[1] + 1)..(pair[2] - 1) :
          ~IsHeadingLine(RawLines[i])
    /\ \A i, j \in DOMAIN RawLines :
          (i < j /\ IsHeadingLine(RawLines[i]) /\ IsHeadingLine(RawLines[j]))
              => HeadingKey(RawLines[i]) # HeadingKey(RawLines[j])

\* The part of C2 the program keeps: the documents in which no heading line
\* lies inside a pair and every heading key occurs once.
C2_WhenHeadingsClearOfPairs ==
    (pc = "placed" /\ HeadingsClearOfPairs) =>
        \A pair \in MatchedPairs :
            pair[2] > pair[1] + 1 => OnPageOfItsOwn(pair)

\* A placed document in which a pair without heading lines became a title
\* block on its own page, after a section heading.
C2_PairPlaced ==
    /\ pc = "placed"
    /\ RawLines = <<DocCapsLine, DocEqualsRule, DocLowerLine, DocEqualsRule>>
    /\ OnPageOfItsOwn(<<2, 4>>)

\* The claim's case with an ALL-CAPS title: the document is placed and the
\* content of the pair is on no page of its own.
C2_CapsTitleLost ==
    /\ pc = "placed"
    /\ RawLines = <<DocEqualsRule, DocCapsLine, DocEqualsRule>>
    /\ MatchedPairs = {<<1, 3>>}
    /\ ~OnPageOfItsOwn(<<1, 3>>)
    /\ \A k \in DOMAIN segments : ~segments[k].page_always_new


(***************************************************************************)
(* Properties of the structural parser and of classify_headings.           *)
(***************************************************************************)
\* The style classify_headings gave to a key.
StyleOf(key) == OdGet(heading_styles, key)

\* The key the claim gives to the line "<number>. <title>".
NormalizedKey(parts, title) == (Join(parts, <<".">>) \o <<" ">>) \o Strip(title)

\* C11: section key normalization and classification.  Every numbered
\* heading line "<number>. <title>" of the input has the key "<number without
\* its trailing dot> <title>" in the section map, and classify_headings calls
\* that key a subsection exactly when its number holds more than one dot.
C11_KeyNormalization ==
    pc = "dry" =>
        \A n \in ParseNumberedSamples :
            (\E i \in DOMAIN RawLines : RawLines[i] = NumberedHeading(n[1], n[2], n[3]))
                => /\ OdHas(sections_od, NormalizedKey(n[1], n[3]))
                   /\ OdHas(heading_styles, NormalizedKey(n[1], n[3]))
                   /\ StyleOf(NormalizedKey(n[1], n[3])) =
                          IF Len(n[1]) - 1 > 1 THEN "subsection" ELSE "section"

\* C11 witness: "1. Intro", "1.2. Damages" and a three-level heading were
\* parsed and classified: two sections and one subsection.
C11_Witness ==
    /\ pc = "dry"
    /\ OdKeys(sections_od) = <<<<"1", " ", "I", "n", "t", "r", "o">>, <<"1", ".", "2", " ", "D", "a", "m", "a", "g", "e", "s">>, <<"I", "V", ".", "2", ".", "1", " ", "L", "o", "s", "s">>>>
    /\ [i \in DOMAIN heading_styles |-> heading_styles[i][2]]
           = <<"section", "section", "subsection">>

\* The sections whose key has the multi-level number "1.2.3" as its number.
MultiLevelSections ==
    {i \in DOMAIN sections_od : SplitWords(sections_od[i][1])[1] = <<"1", ".", "2", ".", "3">>}

\* C12: multi-level boundary case.  When the input holds the line
\* "1.2.3 Sub", the parser opens a section for it and classify_headings
\* calls that section a subsection.
C12_MultiLevelHeading ==
    (pc = "dry" /\ \E i \in DOMAIN RawLines : RawLines[i] = ParseNoFinalDot) =>
        \E i \in MultiLevelSections : StyleOf(sections_od[i][1]) = "subsection"

\* The line "1.2.3 Sub" after a heading: the parser kept it as a body line
\* of that heading's section and opened no section for it.
C12_KeptAsBodyLine ==
    /\ pc = "dry"
    /\ RawLines = <<ParseCapsLine, ParseNoFinalDot>>
    /\ sections_od = <<<<ParseCapsLine, ParseNoFinalDot>>>>
    /\ MultiLevelSections = {}

\* The lines that open a section without the numbered pattern: ALL-CAPS
\* lines and bare "N." lines.
IsNonNumberedHeading(line) ==
    /\ ~HeadingMatch(line).matched
    /\ is_line_all_caps(Strip(line)) \/ IsBareNumber(Strip(line))

\* C13: every non-numbered heading of the input, whatever its characters, is
\* classified as a section.
C13_NonNumberedIsSection ==
    pc = "dry" =>
        \A i \in DOMAIN RawLines :
            IsNonNumberedHeading(RawLines[i])
                => /\ OdHas(heading_styles, Strip(RawLines[i]))
                   /\ StyleOf(Strip(RawLines[i])) = "section"

\* The part of C13 the program keeps: the non-numbered headings whose first
\* word holds at most one dot.
C13_WhenFirstWordHasOneDot ==
    pc = "dry" =>
        \A i \in DOMAIN RawLines :
            (/\ IsNonNumberedHeading(RawLines[i])
             /\ Cardinality({k \in DOMAIN SplitWords(RawLines[i]) [1] :
                                SplitWords(RawLines[i])[1][k] = "."}) <= 1)
                => /\ OdHas(heading_styles, Strip(RawLines[i]))
                   /\ StyleOf(Strip(RawLines[i])) = "section"

\* The ALL-CAPS heading "U.S.A. CORP" classified as a subsection.
C13_CapsSubsection ==
    /\ pc = "dry"
    /\ RawLines = <<ParseCapsDots>>
    /\ IsNonNumberedHeading(ParseCapsDots)
    /\ heading_styles = <<<<ParseCapsDots, "subsection">>>>

\* The lines after heading line i up to the next heading line, joined; heads
\* holds the indices of the heading lines.
BodyAfter(lines, heads, i) ==
    LET later == {j \in heads : j > i}
        stop == IF later = {} THEN Len(lines) + 1 ELSE KthSmallest(later, 1)
    IN Join(SubSeq(lines, i + 1, stop - 1), NewLine)

\* C14: duplicate section key.  The section map holds each heading key once,
\* the keys stand in the order of their first occurrences, and the body of a
\* key is the one accumulated after its last occurrence.
C14_DuplicateKey ==
    pc \in {"prepare", "dry"} =>
        LET lines == RawLines
            heads == {i \in DOMAIN lines : IsHeadingLine(lines[i])}
            key == [i \in heads |-> HeadingKey(lines[i])]
            firsts == {i \in heads : \A j \in heads : j < i => key[j] # key[i]}
            lasts == {i \in heads : \A j \in heads : j > i => key[j] # key[i]}
        IN /\ OdKeys(sections_od) =
                  [k \in 1..Cardinality(firsts) |-> key[KthSmallest(firsts, k)]]
           /\ \A i \in lasts :
                  OdGet(sections_od, key[i]) = BodyAfter(lines, heads, i)

\* C14 witness: a heading, a body line, the same heading again.  The map
\* holds the key once, with the empty body that follows its last occurrence.
C14_Witness ==
    /\ pc = "dry"
    /\ RawLines = <<ParseCapsLine, ParseBodyLine, ParseCapsLine>>
    /\ sections_od = <<<<ParseCapsLine, <<>>>>>>


(***************************************************************************)
(* Properties of detect_legal_title_blocks and parse_documents_from_text.  *)
(***************************************************************************)
ScanLines == SplitLines(scan_text)

\* The item a line yields when it is yielded on its own.
OwnItem(line) ==
    <<IF is_line_of_equals(line) \/ is_line_of_dashes(line)
      THEN "delimiter_line" ELSE "normal_line", line>>

\* C15: unterminated title block.  When the '=' lines of the range are odd
\* in number, the last of them has no closing line: it and every line after
\* it are yielded one by one, as the last items, each on its own.
C15_UnterminatedBlock ==
    pc \in {"scanned", "split"} =>
        LET lines == ScanLines
            n == Len(lines)
            rules == {i \in 1..n : is_line_of_equals(lines[i])}
        IN Cardinality(rules) % 2 = 1 =>
              LET opener == KthSmallest(rules, Cardinality(rules))
                  count == Len(title_items)
              IN /\ count >= n - opener + 1
                 /\ \A i \in opener..n :
                       title_items[count - (n - i)] = OwnItem(lines[i])

\* C15 witness: a closed block, then an '=' line without a closing line,
\* followed by a text line and a '-' line, all three yielded on their own.
C15_Witness ==
    /\ pc = "scanned"
    /\ ScanLines = <<ScanEqualsRule, ScanEqualsRule, ScanEqualsRule,
                     ScanTextLine, ScanDashRule>>
    /\ title_items = <<<<"legal_page_title_block", <<>>>>,
                       <<"delimiter_line", ScanEqualsRule>>,
                       <<"normal_line", ScanTextLine>>,
                       <<"delimiter_line", ScanDashRule>>>>

\* C16: every '-' line of the range is yielded as a bare delimiter_line
\* item and none lies among the inner lines of a title block.
C16_DashAlwaysBare ==
    pc \in {"scanned", "split"} =>
        LET lines == ScanLines
            dashes == {i \in DOMAIN lines : is_line_of_dashes(lines[i])}
            bare == {k \in DOMAIN title_items :
                        /\ title_items[k][1] = "delimiter_line"
                        /\ is_line_of_dashes(title_items[k][2])}
        IN /\ Cardinality(bare) = Cardinality(dashes)
           /\ \A k \in DOMAIN title_items :
                 title_items[k][1] = "legal_page_title_block" =>
                     \A m \in DOMAIN title_items[k][2] :
                         ~is_line_of_dashes(title_items[k][2][m])

\* The part of C16 the program keeps: the '-' lines that do not lie between
\* the two '=' lines of a pair are yielded as bare delimiter_line items.
C16_DashOutsideBlocksBare ==
    pc \in {"scanned", "split"} =>
        LET lines == ScanLines
            rules == {i \in DOMAIN lines : is_line_of_equals(lines[i])}
            outside == {i \in DOMAIN lines :
                           /\ is_line_of_dashes(lines[i])
                           /\ \/ Cardinality({r \in rules : r < i}) % 2 = 0
                              \/ \A r \in rules : r < i}
            bare == {k \in DOMAIN title_items :
                        /\ title_items[k][1] = "delimiter_line"
                        /\ is_line_of_dashes(title_items[k][2])}
        IN Cardinality(bare) = Cardinality(outside)

\* A '-' line between two '=' lines, yielded as the inner line of a title
\* block and not as a delimiter_line item.
C16_DashInsideBlock ==
    /\ pc = "scanned"
    /\ ScanLines = <<ScanEqualsRule, ScanDashRule, ScanEqualsRule>>
    /\ title_items = <<<<"legal_page_title_block", <<ScanDashRule>>>>>>

\* C19: sub-document splitting.  The delimiter lines ('=' or '-') pair up in
\* order of occurrence; the sub-documents are, in order, the lines strictly
\* between the two lines of each pair, so there are floor(delimiters / 2) of
\* them and none holds a delimiter line.
C19_SubDocuments ==
    pc = "split" =>
        LET lines == ScanLines
            marks == {i \in DOMAIN lines :
                         is_line_of_equals(lines[i]) \/ is_line_of_dashes(lines[i])}
            pairs == Cardinality(marks) \div 2
        IN /\ found_documents =
                 [k \in 1..pairs |->
                     Join(SubSeq(lines, KthSmallest(marks, 2 * k - 1) + 1,
                                 KthSmallest(marks, 2 * k) - 1), NewLine)]
           /\ \A k \in DOMAIN found_documents :
                 LET inner == SplitLines(found_documents[k]) IN
                 \A m \in DOMAIN inner :
                     ~(is_line_of_equals(inner[m]) \/ is_line_of_dashes(inner[m]))

\* C19 witness: an '=' line closed by a '-' line, then a '-' line that no
\* line closes: one sub-document, and the text after the last opener dropped.
C19_Witness ==
    /\ pc = "split"
    /\ ScanLines = <<ScanEqualsRule, ScanTextLine, ScanDashRule, ScanDashRule,
                     ScanTextLine>>
    /\ found_documents = <<ScanTextLine>>


(***************************************************************************)
(* Properties of the gutter numbers and of the page packing.               *)
(***************************************************************************)
\* The 0-based indices of the segments flagged as heading or subheading.
HeadingSegments ==
    {k \in 0..(Len(segments) - 1) :
        segments[k + 1].is_heading \/ segments[k + 1].is_subheading}

\* The number of numbered (non-title) segments among the segments 0..k.
NumberedUpTo(k) == Cardinality({j \in 0..k : ~IsTitle(j)})

\* C17: gutter numbering.  The line number recorded with the m-th heading
\* is the number of numbered segments placed up to and including that
\* heading: title blocks do not advance the count.
C17_GutterNumbering ==
    \A m \in DOMAIN heading_positions :
        heading_positions[m][3] = NumberedUpTo(KthSmallest(HeadingSegments, m))

\* The part of C17 the program keeps: the headings that no title block
\* precedes.
C17_WithoutEarlierTitle ==
    \A m \in DOMAIN heading_positions :
        LET k == KthSmallest(HeadingSegments, m) IN
        (\A j \in 0..k : ~IsTitle(j)) => heading_positions[m][3] = NumberedUpTo(k)

\* A title block followed by a heading: the heading is the first numbered
\* line of the document and carries the number 2.
C17_TitleAdvancesCount ==
    /\ pc = "placed"
    /\ Len(segments) = 2
    /\ IsTitle(0)
    /\ segments[2].is_heading
    /\ heading_positions = <<<<HeadingText, 2, 2, FALSE>>>>


(***************************************************************************)
(* Properties of the pipeline on heading-free input.                       *)
(***************************************************************************)
\* C18: graceful degradation.  When no line of the input is a heading line
\* (the empty input included), the section map is empty, the header holds
\* every input line, no segment is flagged as heading or subheading, and no
\* heading coordinate is recorded.
C18_HeadingFreeInput ==
    LET lines == RawLines IN
    (\A i \in DOMAIN lines : ~IsHeadingLine(lines[i])) =>
        /\ heading_positions = <<>>
        /\ pc # "parse" =>
              /\ sections_od = <<>>
              /\ header_od = <<<<"content", Join(lines, NewLine)>>>>
        /\ pc \notin {"parse", "prepare"} =>
              \A k \in DOMAIN segments :
                  ~segments[k].is_heading /\ ~segments[k].is_subheading

\* C18 witness: a heading-free text of three lines went through the whole
\* pipeline and was placed.
C18_Witness ==
    /\ pc = "placed"
    /\ RawLines = <<DocLowerLine, DocDashRule, DocLowerLine>>
    /\ sections_od = <<>>
    /\ Len(segments) = 3
    /\ pages # <<>>
    /\ heading_positions = <<>>


(***************************************************************************)
(* Properties of the page packing.                                         *)
(***************************************************************************)
\* The number of segments on page p.
PageSize(p) == pages[p].end - pages[p].start

\* C20: greedy page packing.  A page without a title block holds between 1
\* and max_lines_per_page segments, and it was closed because it is full,
\* because the next segment is a title block, or because no segment is left.
C20_GreedyPacking ==
    \A p \in DOMAIN pages :
        ~pages[p].title =>
            /\ 1 <= PageSize(p)
            /\ PageSize(p) <= max_lines_per_page
            /\ \/ PageSize(p) = max_lines_per_page
               \/ pages[p].end = Len(segments)
               \/ IsTitle(pages[p].end)

\* C20 witness: with a budget of two lines or more, the pass has ended with
\* a page that only the budget closed and a page that a title block cut
\* short.
C20_Witness ==
    /\ pc = "placed"
    /\ max_lines_per_page >= 2
    /\ \E p \in DOMAIN pages :
          /\ ~pages[p].title
          /\ PageSize(p) = max_lines_per_page
          /\ pages[p].end < Len(segments)
          /\ ~IsTitle(pages[p].end)
    /\ \E p \in DOMAIN pages :
          /\ ~pages[p].title
          /\ PageSize(p) < max_lines_per_page
          /\ pages[p].end < Len(segments)
          /\ IsTitle(pages[p].end)


(***************************************************************************)
(* Properties of the heading bookkeeping.                                  *)
(***************************************************************************)
\* C21: heading bookkeeping.  The coordinates recorded so far are, one for
\* one and in order, the flagged segments placed so far; each carries the
\* text and the subheading flag of its segment and the number of the page
\* that holds it, and the line numbers strictly increase.  The dry pass
\* records nothing.
C21_HeadingBookkeeping ==
    LET flagged == HeadingSegments
        done == IF pc = "dry" THEN {}
                ELSE {k \in flagged : k < current_index}
    IN /\ Len(heading_positions) = Cardinality(done)
       /\ \A m \in DOMAIN heading_positions :
             LET k == KthSmallest(done, m) IN
             /\ heading_positions[m][1] = segments[k + 1].text
             /\ heading_positions[m][4] = segments[k + 1].is_subheading
             /\ \E p \in DOMAIN pages :
                   /\ PageHolds(p, k)
                   /\ heading_positions[m][2] = pages[p].page_number
       /\ \A m \in 1..(Len(heading_positions) - 1) :
             heading_positions[m][3] < heading_positions[m + 1][3]

\* C21 witness: the pass has ended; a heading, a subheading and two
\* unflagged segments (one of them a title block) were placed, and exactly
\* the two flagged ones were recorded.
C21_Witness ==
    /\ pc = "placed"
    /\ Len(segments) = 4
    /\ \E k \in 0..3 : IsTitle(k)
    /\ \E k \in 0..3 : segments[k + 1].is_heading
    /\ \E k \in 0..3 : segments[k + 1].is_subheading
    /\ Len(heading_positions) = 2


(***************************************************************************)
(* Properties of the line partition of parse_header_and_sections.          *)
(***************************************************************************)
\* C22: line partition.  The header content is the lines before the first
\* heading line, joined; and when the heading keys are all distinct, the
\* sections are, in order, one per heading line, each with the lines between
\* its heading line and the next one as its body: no line is lost.
C22_LinePartition ==
    pc \in {"prepare", "dry"} =>
        LET lines == RawLines
            heads == {i \in DOMAIN lines : IsHeadingLine(lines[i])}
            first == IF heads = {} THEN Len(lines) + 1 ELSE KthSmallest(heads, 1)
            key == [i \in heads |-> HeadingKey(lines[i])]
        IN /\ header_od = <<<<"content", Join(SubSeq(lines, 1, first - 1), NewLine)>>>>
           /\ (\A i, j \in heads : i # j => key[i] # key[j]) =>
                 sections_od =
                     [k \in 1..Cardinality(heads) |->
                         <<key[KthSmallest(heads, k)],
                           BodyAfter(lines, heads, KthSmallest(heads, k))>>]

\* C22 witness: a header line, a heading line and a body line, each kept in
\* its place.
C22_Witness ==
    /\ pc = "dry"
    /\ RawLines = <<ParseBodyLine, ParseCapsLine, ParseNoFinalDot>>
    /\ header_od = <<<<"content", ParseBodyLine>>>>
    /\ sections_od = <<<<ParseCapsLine, ParseNoFinalDot>>>>


(***************************************************************************)
(* Properties of prepare_main_pdf_segments.                                *)
(***************************************************************************)
\* The segments of ordinary lines: neither title block, nor delimiter, nor
\* heading.
OrdinarySegments ==
    {k \in DOMAIN segments :
        /\ ~segments[k].page_always_new
        /\ ~segments[k].delimiter_line
        /\ ~segments[k].is_heading
        /\ ~segments[k].is_subheading}

C23_HeaderCapsCentered ==
    pc = "dry" =>
        LET header_count ==
                Len(prepare_main_pdf_segments(OdGet(header_od, "content"), <<>>,
                                              <<>>, max_text_width))
        IN \A k \in OrdinarySegments :
               (k <= header_count /\ is_line_all_caps(segments[k].text))
                   => segments[k].alignment = "center"

C24_EmptyLines ==
    Wrapped =>
        LET paragraphs == SplitOn(full_text, "\n")
            wordless == {k \in DOMAIN paragraphs : SplitWords(paragraphs[k]) = <<>>}
            empty == {i \in DOMAIN all_lines : all_lines[i][1] = <<>>}
        IN /\ Cardinality(empty) = Cardinality(wordless)
           /\ \A i \in empty : all_lines[i][2] = FALSE

\* The part of C24 the program keeps: the texts in which no paragraph starts
\* with a word wider than max_width.
C24_WhenFirstWordsFit ==
    LET paragraphs == SplitOn(full_text, "\n")
        wordless == {k \in DOMAIN paragraphs : SplitWords(paragraphs[k]) = <<>>}
        empty == {i \in DOMAIN all_lines : all_lines[i][1] = <<>>}
    IN (/\ Wrapped
        /\ \A k \in DOMAIN paragraphs :
              k \notin wordless =>
                  BodyWidth(SplitWords(paragraphs[k])[1]) <= max_width)
           => /\ Cardinality(empty) = Cardinality(wordless)
              /\ \A i \in empty : all_lines[i][2] = FALSE

\* A one-word paragraph whose word is wider than max_width: an empty line
\* flagged as wrapped comes out before the word.
C24_EmptyLineBeforeWord ==
    /\ pc = "wrapped"
    /\ full_text = <<"a", "a">>
    /\ BodyWidth(full_text) > max_width
    /\ all_lines = << <<<<>>, TRUE>>, <<full_text, FALSE>> >>


(***************************************************************************)
(* generate_legal_document: the exhibit pages.  Lengths on the page are in *)
(* tenths of a point, so that 0.8 inch and 0.6 inch are whole numbers.     *)
(***************************************************************************)
MaxGenSegs == 1
MaxExhibits == 2

Inch == 720
PageWidth == 6120
PageHeight == 7920

\* Line 1120.
LineSpacing == Inch \div 4

\* Line 861, in points as stringWidth measures.
ExhibitTextWidth == (PageWidth - (3 * Inch) \div 2) \div 10

\* Lines 863-867: y_text of the first text line under the exhibit label.
ExhibitTextTop == PageHeight - (8 * Inch) \div 10 - 2 * LineSpacing

\* Line 870: a line is drawn on the current page unless y_text is below this.
ExhibitTextBottom == (6 * Inch) \div 10

ExhibitPage(number, total_pages, kind) ==
    [page_number |-> number, total_pages |-> total_pages, kind |-> kind]

\* Lines 869-890: the loop over the wrapped lines; st.shown are the pages
\* the loop closes with a footer and showPage.
RECURSIVE ExhibitTextLoop(_, _, _, _, _)
ExhibitTextLoop(wrapped, i, y_text, total_pages, st) ==
    IF i > Len(wrapped) THEN st
    ELSE IF y_text < ExhibitTextBottom
         THEN ExhibitTextLoop(wrapped, i + 1, ExhibitTextTop - LineSpacing, total_pages,
                  [page_number |-> st.page_number + 1,
                   shown |-> Append(st.shown,
                                ExhibitPage(st.page_number, total_pages, "text"))])
         ELSE ExhibitTextLoop(wrapped, i + 1, y_text - LineSpacing, total_pages, st)

\* Lines 839-891: returns the number of the page left open, with the pages
\* closed on the way.
draw_exhibit_text(ex_content, number, total_pages, font_name, font_size) ==
    LET wrapped == wrap_text_to_lines(ex_content, font_name, font_size, ExhibitTextWidth)
    IN ExhibitTextLoop(wrapped, 1, ExhibitTextTop, total_pages,
                       [page_number |-> number, shown |-> <<>>])

\* Line 1204: "if image_path" is false for None and for the empty string.
HasImage(image_path) == image_path # None /\ image_path[1] # <<>>

\* Lines 1181-1215: one exhibit of the loop.
DrawExhibit ==
    /\ pc = "placed"
    /\ exhibit_idx < Len(exhibits)
    /\ LET ex_content == exhibits[exhibit_idx + 1][1]
           image_path == exhibits[exhibit_idx + 1][2]
           drawn == draw_exhibit_text(ex_content, page_number, total_pages_est,
                                      BodyFontName, BodyFontSize)
           text_pages_shown ==
               Append(drawn.shown,
                      ExhibitPage(drawn.page_number, total_pages_est, "text"))
       IN IF HasImage(image_path)
          THEN /\ exhibit_pages' = exhibit_pages \o text_pages_shown \o
                      <<ExhibitPage(drawn.page_number + 1, total_pages_est, "image")>>
               /\ page_number' = drawn.page_number + 2
          ELSE /\ exhibit_pages' = exhibit_pages \o text_pages_shown
               /\ page_number' = drawn.page_number + 1
    /\ exhibit_idx' = exhibit_idx + 1
    /\ UNCHANGED <<pc, segments, max_lines_per_page, current_index, text_pages,
                   total_pages_est, heading_positions, dry_pages, pages, exhibits>>
    /\ UNCHANGED <<wrapVars, exhibitVars, tocVars, docVars, scanVars>>

\* Line 1217: pdf_canvas.save().
SaveDocument ==
    /\ pc = "placed"
    /\ exhibit_idx >= Len(exhibits)
    /\ pc' = "saved"
    /\ UNCHANGED <<pagVars, wrapVars, exhibitVars, tocVars, docVars, scanVars, genVars>>

(***************************************************************************)
(* SpecGen: generate_legal_document over up to MaxGenSegs sample segments  *)
(* and up to MaxExhibits sample exhibits: a caption of one line or a text  *)
(* of one line more than an exhibit page holds, with or without an image.  *)
(***************************************************************************)
ExhibitLinesPerPage == (ExhibitTextTop - ExhibitTextBottom) \div LineSpacing + 1

ExhibitShortText == <<"a">>
ExhibitLongText == [i \in 1..ExhibitLinesPerPage |-> "\n"]
ExhibitImagePath == <<"i">>

SampleExhibits ==
    { <<ExhibitShortText, None>>,
      <<ExhibitShortText, Some(ExhibitImagePath)>>,
      <<ExhibitLongText, None>>,
      <<ExhibitLongText, Some(ExhibitImagePath)>> }

GenInit ==
    /\ pc = "dry"
    /\ segments \in SeqsUpTo(SampleSegments, MaxGenSegs)
    /\ max_lines_per_page \in 1..MaxLPP
    /\ exhibits \in SeqsUpTo(SampleExhibits, MaxExhibits)
    /\ PagInit
    /\ WrapIdle
    /\ ExhibitIdle
    /\ TocIdle
    /\ DocIdle
    /\ ScanIdle

GenNext ==
    DryPassStep \/ DryPassEnd \/ DrawPage \/ PlaceEnd \/ DrawExhibit \/ SaveDocument

SpecGen == GenInit /\ [][GenNext]_vars

(***************************************************************************)
(* Properties of the footer total.                                         *)
(***************************************************************************)
\* C25: the N of every "Page X of N" footer, text_pages plus two pages for
\* each exhibit, is the number of pages the document emits, whatever the
\* exhibits: every page has X <= N and the last page has X = N.
C25_FooterTotal ==
    pc = "saved" =>
        LET emitted == Len(pages) + Len(exhibit_pages) IN
        /\ total_pages_est = text_pages + 2 * Len(exhibits)
        /\ \A k \in DOMAIN pages :
              /\ pages[k].total_pages = emitted
              /\ pages[k].page_number <= pages[k].total_pages
        /\ \A k \in DOMAIN exhibit_pages :
              /\ exhibit_pages[k].total_pages = emitted
              /\ exhibit_pages[k].page_number <= exhibit_pages[k].total_pages
        /\ exhibit_pages # <<>> =>
              exhibit_pages[Len(exhibit_pages)].page_number = emitted
        /\ (exhibit_pages = <<>> /\ pages # <<>>) =>
              pages[Len(pages)].page_number = emitted

ExhibitTextLines(ex_content) ==
    Len(wrap_text_to_lines(ex_content, BodyFontName, BodyFontSize, ExhibitTextWidth))

\* The part of C25 the program keeps: the documents in which every exhibit
\* has an image and a text of at most one exhibit page.
C25_WhenTwoPagesEach ==
    (/\ pc = "saved"
     /\ \A k \in DOMAIN exhibits :
           /\ HasImage(exhibits[k][2])
           /\ ExhibitTextLines(exhibits[k][1]) <= ExhibitLinesPerPage)
    => LET emitted == Len(pages) + Len(exhibit_pages) IN
       /\ total_pages_est = emitted
       /\ \A k \in DOMAIN pages :
             pages[k].total_pages = emitted /\ pages[k].page_number = k
       /\ \A k \in DOMAIN exhibit_pages :
             /\ exhibit_pages[k].total_pages = emitted
             /\ exhibit_pages[k].page_number = Len(pages) + k

\* One exhibit without an image after one text page: the document has two
\* pages and both footers say "of 3".
C25_ExhibitWithoutImage ==
    /\ pc = "saved"
    /\ Len(segments) = 1
    /\ exhibits = << <<ExhibitShortText, None>> >>
    /\ Len(pages) = 1
    /\ pages[1].total_pages = 3
    /\ exhibit_pages = <<ExhibitPage(2, 3, "text")>>

\* One exhibit with an image whose text needs a second page: the document
\* has three exhibit pages and the last footer says "Page 3 of 2".
C25_LongExhibitText ==
    /\ pc = "saved"
    /\ segments = <<>>
    /\ exhibits = << <<ExhibitLongText, Some(ExhibitImagePath)>> >>
    /\ exhibit_pages = <<ExhibitPage(1, 2, "text"), ExhibitPage(2, 2, "text"),
                         ExhibitPage(3, 2, "image")>>


(***************************************************************************)
(* Algebraic properties of filter_headings_for_toc.                        *)
(***************************************************************************)
\* a is b with some elements left out.
RECURSIVE IsSubsequence(_, _)
IsSubsequence(a, b) ==
    IF a = <<>> THEN TRUE
    ELSE IF b = <<>> THEN FALSE
    ELSE IF Head(a) = Head(b) THEN IsSubsequence(Tail(a), Tail(b))
    ELSE IsSubsequence(a, Tail(b))

\* C26: the result of filter_headings_for_toc is a subsequence of its input,
\* with every kept coordinate unchanged, and filtering the result again gives
\* the result back.
C26_FilterIdempotent ==
    /\ pc = "filtered" =>
          IsSubsequence(toc_positions, heading_positions)
    /\ pc = "refiltered" =>
          toc_positions = filter_headings_for_toc(heading_positions)

\* C26 witness: a list that loses a heading in the first filtering has been
\* filtered twice and still keeps its "SPECIAL EXHIBITS" heading.
C26_Witness ==
    /\ pc = "refiltered"
    /\ Len(toc_positions) < Len(heading_positions)
    /\ \E k \in DOMAIN toc_positions :
          /\ k > 1
          /\ IsSpecialHeading(toc_positions[k][1])
          /\ is_exhibit_reference(toc_positions[k - 1][1])


(***************************************************************************)
(* Coverage of the line range by the items of detect_legal_title_blocks.   *)
(***************************************************************************)
\* The lines an item stands for: a title block stands for its two '=' lines
\* and its inner lines, any other item for one line.
ItemSize(item) ==
    IF item[1] = "legal_page_title_block" THEN Len(item[2]) + 2 ELSE 1

\* The lines the first k items stand for.
RECURSIVE ItemsSize(_, _)
ItemsSize(items, k) ==
    IF k = 0 THEN 0 ELSE ItemsSize(items, k - 1) + ItemSize(items[k])

\* C27: scanner coverage.  The items account for each line of the range
\* exactly once and in order: laid end to end, every title block covers an
\* '=' line, its inner lines and an '=' line, every other item is a
\* delimiter_line or a normal_line carrying the one line it covers, and the
\* items cover the whole range.
C27_ScannerCoverage ==
    pc \in {"scanned", "split"} =>
        LET lines == ScanLines
            items == title_items
        IN /\ ItemsSize(items, Len(items)) = Len(lines)
           /\ \A k \in DOMAIN items :
                 LET first == ItemsSize(items, k - 1) + 1
                     last == ItemsSize(items, k)
                 IN IF items[k][1] = "legal_page_title_block"
                    THEN /\ is_line_of_equals(lines[first])
                         /\ items[k][2] = SubSeq(lines, first + 1, last - 1)
                         /\ is_line_of_equals(lines[last])
                    ELSE /\ items[k][1] \in {"delimiter_line", "normal_line"}
                         /\ items[k][2] = lines[first]

\* C27 witness: a text line, a title block with one inner line, and a '-'
\* line: three items for five lines.
C27_Witness ==
    /\ pc = "scanned"
    /\ ScanLines = <<ScanTextLine, ScanEqualsRule, ScanTextLine, ScanPaddedRule,
                     ScanDashRule>>
    /\ title_items = <<<<"normal_line", ScanTextLine>>,
                       <<"legal_page_title_block", <<ScanTextLine>>>>,
                       <<"delimiter_line", ScanDashRule>>>>


(***************************************************************************)
(* SpecLive: the two passes of generate_legal_document as they run.  Both  *)
(* loops are sequential code that nothing interrupts: a step that can be   *)
(* taken is taken.                                                         *)
(***************************************************************************)
SpecLive == Init /\ [][Next]_vars /\ WF_vars(Next)

\* Every page counted by the dry pass and every page placed so far holds at
\* least one segment and starts where the page before it ended.
PagesAdvance ==
    /\ \A k \in DOMAIN dry_pages :
          /\ dry_pages[k][1] < dry_pages[k][2]
          /\ dry_pages[k][1] = IF k = 1 THEN 0 ELSE dry_pages[k - 1][2]
    /\ \A k \in DOMAIN pages :
          /\ pages[k].start < pages[k].end
          /\ pages[k].start = IF k = 1 THEN 0 ELSE pages[k - 1].end

\* The pages placed hold every segment: the last page ends at the last
\* segment, a title page holds its title block alone and any other page
\* holds no title block.
AllPlacedOnce ==
    /\ pages # <<>> => pages[Len(pages)].end = Len(segments)
    /\ pages = <<>> => segments = <<>>
    /\ dry_pages # <<>> => dry_pages[Len(dry_pages)][2] = Len(segments)
    /\ \A k \in DOMAIN pages :
          IF pages[k].title
          THEN /\ pages[k].end = pages[k].start + 1
               /\ segments[pages[k].end].page_always_new
          ELSE \A i \in (pages[k].start + 1)..pages[k].end :
                  ~segments[i].page_always_new

\* C28: pagination terminates.  The dry pass finishes and the placement loop
\* finishes; every page of either pass consumes at least one segment; at the
\* end the pages hold every segment exactly once, in sequence order.
C28_PaginationTerminates ==
    /\ <>(pc = "place")
    /\ <>(pc = "placed")
    /\ [](PagesAdvance)
    /\ [](pc = "placed" => AllPlacedOnce)

\* C28 witness: three segments or more, a title block among them, placed on
\* three pages or more after a dry pass of as many pages.
C28_Witness ==
    /\ pc = "placed"
    /\ Len(segments) >= 3
    /\ \E i \in DOMAIN segments : segments[i].page_always_new
    /\ Len(pages) >= 3
    /\ Len(dry_pages) = Len(pages)
    /\ current_index = Len(segments)

=============================================================================
